---- MODULE Spec2Model ----
(***************************************************************************)
(* A model of net_pilot's polling core: the speed-delta calculation, the   *)
(* fast (statistics stream) and slow (diagnostics) polling loops of        *)
(* gui/polling_manager.py, the adapter selection of gui/main_controller.py,*)
(* the process runner of logic/command_utils.py and the queue dispatcher   *)
(* of gui/queue_handler.py.                                                *)
(***************************************************************************)
EXTENDS Integers, Sequences, FiniteSets, TLC

\* ------------------------------------------------------------------ bounds

\* Largest byte counter an adapter reports in a sample.
MaxCounter == 1
\* Largest time_delta handed to _calculate_speed_delta directly.
MaxDt == 2
\* Lines the statistics child writes before the model stops reading.
MaxLines == 2
\* Calls of refresh_adapter_list made while the fast loop runs.
MaxRefresh == 1
\* Calls of on_adapter_select made while the fast loop runs.
MaxSelect == 2
\* Largest reading of time.time() in the fast loop's model.
MaxTime == 2
\* Iterations of the slow loop.
MaxIter == 3
\* Polling intervals that pass in the slow loop's model.
MaxSlowTicks == 2
\* Largest timeout handed to run_system_command.
MaxTimeout == 2
\* Largest reading of the clock in the process runner's model.
MaxCmdTime == 3
\* Events the worker threads put on the queue in the dispatcher's model.
MaxEvents == 2
\* Calls of start_all and start_polling_threads.
MaxStartCalls == 3
\* Events one producer publishes in the model of producers and consumer.
MaxPerProducer == 2
\* Background tasks run through run_background_task.
MaxTasks == 2
\* Length of a byte string given to _safe_decode.
MaxBytes == 3
\* Calls of on_adapter_select and refresh_adapter_list made in a row.
MaxCalls == 4
\* Seconds the disconnect-and-disable workflow is followed for.
MaxFlowTime == 7
\* Lines the child of a streamed command writes.
MaxStreamLines == 3

\* ------------------------------------------------------------------ values

\* Python's None, as returned by dict.get and get_selected_adapter_name.
None == "None"

\* Adapter names of the statistics stream.
Names == {"a", "b"}

\* A counter value: a number, or anything that is not int/float (None, a string).
Num(n) == [t |-> "num", v |-> n]
NaN == [t |-> "nan", v |-> 0]
Values == {Num(n) : n \in 0..MaxCounter} \cup {NaN}
\* JSON null, or a key the record lacks: what dict.get returns for it.
Null == [t |-> "null", v |-> 0]

\* One adapter's entry of current_stats / last_stats.
Entries == [received : Values, sent : Values]

\* A statistics dict: adapter name -> entry, for the adapters present.
StatsOver(S) == [S -> Entries]
AllStats == UNION {StatsOver(S) : S \in SUBSET Names}

\* Adapter names the statistics child reports in the fast loop's model.
StreamNames == {"a"}

\* A line of the statistics stream: records of Name/ReceivedBytes/SentBytes
\* ("stats"), text that is not JSON ("malformed"), a JSON scalar or null
\* ("scalar"), or JSON that iterates without yielding a record with a Name
\* ("norecords": a string, an empty list, a list of numbers).
\* The records the model's child reports for an adapter: counters at rest, both
\* advanced, a null counter, a counter that is not a number.
RawEntries ==
    {[ReceivedBytes |-> Num(0), SentBytes |-> Num(0)],
     [ReceivedBytes |-> Num(1), SentBytes |-> Num(1)],
     [ReceivedBytes |-> Null,   SentBytes |-> Num(1)],
     [ReceivedBytes |-> Num(1), SentBytes |-> NaN]}
StatsLines ==
    UNION {{[kind |-> "stats", stats |-> f] : f \in [S -> RawEntries]} :
              S \in SUBSET StreamNames}
OtherLines == {[kind |-> k, stats |-> <<>>] : k \in {"malformed", "scalar", "norecords"}}
Lines == StatsLines \cup OtherLines
NoLine == [kind |-> "none", stats |-> <<>>]

\* The lists get_adapter_details can return.
AdapterLists == {<<>>, <<"a">>, <<"a", "b">>, <<"b", "a">>}

\* The indexes a list selection can hand to on_adapter_select: rows of the
\* longest list, and the row after it (the "no adapters" placeholder row).
SelectIndexes == {0, 1, 2}

\* selected_adapter_index = None (an index is never negative).
NoIndex == -1

\* No event: what the consumer holds between two polls of the queue.
NoMessage == [type |-> "none", data |-> "None"]

\* Bytes of a command's output: an ASCII letter, an ASCII space, the lead byte
\* and the continuation byte of a two-byte UTF-8 sequence, and a byte that no
\* UTF-8 sequence has. A byte string, and None.
Bytes == {"x41", "x20", "xC3", "x84", "xFF"}
ByteStrings == UNION {[1..n -> Bytes] : n \in 0..MaxBytes}
NoBytes == [none |-> TRUE, b |-> <<>>]
SomeBytes(b) == [none |-> FALSE, b |-> b]
\* OEM code pages: a single-byte one, where every byte is a character, and a
\* double-byte one, where a lead byte needs a trail byte and some bytes are
\* no character.
OemPages == {"cp437", "cp932"}
\* What a call of _safe_decode that has not returned has returned.
NoText == [raised |-> FALSE, used |-> "none", text |-> <<>>]

\* Executables a command is made on, output a child writes, and the result of
\* a call that has returned none.
Programs == {"netsh", "ipconfig"}
Outputs == {<<>>, <<"x20">>, <<"x41">>, <<"x84">>}
NoResult == [returncode |-> -1, stdout |-> <<>>, stderr |-> <<>>]
\* The message of a NetworkManagerError for a failed command: the prefix, then
\* the text; and no such message.
GenericText == <<"An unknown error occurred.">>
NoFailure == [prefixed |-> FALSE, text |-> <<>>]

\* The two wrappers that run a function on a worker thread, what the function
\* can do, and a task slot not used yet.
Wrappers == {"action_handler", "base_window"}
Outcomes == {"returns", "NetworkManagerError", "Exception"}
NoTask == [wrapper |-> "none", outcome |-> "none", on_complete |-> FALSE,
           on_error |-> FALSE, pc |-> "none", left |-> <<>>]

\* The two units of work of a slow-loop iteration.
Kinds == {"diagnostics", "wifi_status"}

\* A rate as the exact quotient num/den (Python computes the float num/den).
Quot(n, d) == [num |-> n, den |-> d]
Zero == Quot(0, 1)
NonNegative(r) == r.den # 0 /\ r.num * r.den >= 0

\* ------------------------------------------------------------------ state

VARIABLES
    \* a direct call of _calculate_speed_delta: its arguments and its result,
    \* and the adapters it wrote a log record about
    arg_current, arg_last, arg_dt, ret_speeds, dpc, skip_logged,
    \* PollingManager: is_running, last_stats, last_time; AppContext.task_queue
    is_running, last_stats, last_time, task_queue,
    \* MainController: adapters_data, selected_adapter_index
    adapters_data, selected_adapter_index,
    \* the fast loop's thread: position, child process, the line read, locals
    fpc, process, line, g_list, sel_name, current_stats, current_time,
    calculated_speeds, fwake, fexc,
    \* time.time(); lines read so far; calls made by the other threads so far
    clock, linesRead, refreshes, selects,
    \* history: every name that was the selected adapter's at some moment; how
    \* the last call of refresh_adapter_list ended
    everSelected, refresh_outcome,
    \* the slow loop's thread: position, its flag, the iteration it is in, the
    \* end of its sleep; the fetch threads it started, by kind and iteration
    spc, initial_adapter_load_done, siter, swake, fetch,
    \* history: errors the slow loop logged, its failing iterations in a row,
    \* the iterations in which it called refresh_adapter_list
    errors_logged, failStreak, refreshIters,
    \* a call of run_system_command: its arguments check and timeout, what the
    \* command does, the caller's position, the child, its return code, the
    \* exception in flight, the call's outcome, the time communicate started
    check, timeout, childKind, cpc, child, returncode, cexc, coutcome, cstart,
    \* command[0]; the bytes the child wrote to its stdout; the program the
    \* message of the raised error names; the CompletedProcess returned
    program, child_out, cnamed, cresult,
    \* the bytes the child wrote to its stderr; the message of the error raised
    \* for a failed command
    child_err, cmessage,
    \* the queue's consumer (the Tk thread): its position, the message it
    \* dispatches, the callbacks root.after holds for it; history: events the
    \* workers produced, OS commands run on the consumer thread
    kpc, message, after_calls, produced, consumer_io,
    \* the _process_queue callbacks self.after holds; history: whether the
    \* handler of the last tick raised
    polls_pending, tick_raised,
    \* history: the events the consumer dequeued, in order; the events
    \* process_message ran for, with what ran; events published, by producer
    delivered, dispatched, published,
    \* start_polling_threads callbacks root.after holds; history: threads
    \* started for each loop, calls of start_all and start_polling_threads made,
    \* executions of start_polling_threads
    after_starts, slow_threads, fast_threads, start_calls, start_runs,
    \* the background tasks: for each its wrapper, its callbacks, what its
    \* function does and the position of its worker thread
    tasks,
    \* history: the samples _calculate_current_speeds has parsed, in order,
    \* each with the time of the call and the speeds computed for it
    sample_log,
    \* a call of _safe_decode: the byte string (or None), the OEM code page of
    \* the machine, the caller's position, what the call returned
    sd_bytes, oem_page, sd_pc, sd_ret,
    \* the generator of _stream_ps_command: its position, its child, the read
    \* end of the child's stdout, what the child does, lines written and lines
    \* in the pipe, and what the caller does with the generator
    gpc, gchild, gpipe, gkind, gwritten, gbuf, gcaller,
    \* disconnect_wifi_and_disable_adapter: the generator's position, the time,
    \* its start_time, the end of its sleep; history: what it called and
    \* yielded, in order, when the poll that returned None began and returned
    wpc, wnow, wstart, wwake, wlog, wpoll_began, wconfirmed_at

deltaVars == <<arg_current, arg_last, arg_dt, ret_speeds, dpc, skip_logged>>
ctlVars == <<adapters_data, selected_adapter_index, everSelected, refreshes, selects,
             refresh_outcome>>
fastLocals == <<line, g_list, sel_name, current_stats, current_time,
                calculated_speeds, fwake, fexc>>
fastVars == <<fpc, process, fastLocals, last_stats, last_time, linesRead>>
slowVars == <<spc, initial_adapter_load_done, siter, swake, fetch,
              errors_logged, failStreak, refreshIters>>
cmdVars == <<check, timeout, childKind, cpc, child, returncode, cexc, coutcome, cstart,
             program, child_out, cnamed, cresult, child_err, cmessage>>
logVars == <<delivered, dispatched, published>>
consVars == <<kpc, message, after_calls, produced, consumer_io, logVars,
              polls_pending, tick_raised>>
startVars == <<after_starts, slow_threads, fast_threads, start_calls, start_runs>>
decVars == <<sd_bytes, oem_page, sd_pc, sd_ret>>
streamVars == <<gpc, gchild, gpipe, gkind, gwritten, gbuf, gcaller>>
flowVars == <<wpc, wnow, wstart, wwake, wlog, wpoll_began, wconfirmed_at>>
auxVars == <<decVars, streamVars, flowVars>>
vars == <<deltaVars, is_running, task_queue, ctlVars, fastVars, slowVars, clock,
          cmdVars, consVars, startVars, tasks, sample_log, auxVars>>

\* The parts that have no loop and no queue of their own.
core == <<deltaVars, is_running, task_queue, ctlVars, fastVars, slowVars, clock,
          cmdVars, consVars, startVars, tasks, sample_log>>

\* What the actions of one part leave alone in the other parts.
nonDelta == <<is_running, task_queue, ctlVars, fastVars, slowVars, clock,
              cmdVars, consVars, startVars, tasks, sample_log, auxVars>>
nonFast == <<deltaVars, slowVars, cmdVars, consVars, startVars, tasks, sample_log, auxVars>>
nonSlow == <<deltaVars, fastVars, cmdVars, consVars, startVars, tasks, sample_log, auxVars>>
nonCmd == <<deltaVars, is_running, task_queue, ctlVars, fastVars, slowVars, consVars,
            startVars, tasks, sample_log, auxVars>>
nonCons == <<deltaVars, is_running, fastVars, slowVars, clock, cmdVars, startVars,
             tasks, sample_log, auxVars>>
nonTask == <<deltaVars, is_running, ctlVars, fastVars, slowVars, clock, cmdVars,
             consVars, startVars, sample_log, auxVars>>

\* ------------------------------------------------- _calculate_speed_delta

\* isinstance(v, (int, float)) for all four counters of one adapter.
AllNumeric(cur, last) ==
    /\ cur.received.t = "num" /\ last.received.t = "num"
    /\ cur.sent.t = "num" /\ last.sent.t = "num"

\* One direction's rate: delta / time_delta, or 0 when the counter went back.
RateMutNoClamp(delta, time_delta) == Quot(delta, time_delta)
Rate(delta, time_delta) ==
    IF delta >= 0 THEN Quot(delta, time_delta) ELSE Zero

\* The adapters that get a result: present in both samples, counters numeric.
Computed(cur, last) ==
    {n \in DOMAIN cur : n \in DOMAIN last /\ AllNumeric(cur[n], last[n])}

\* if not last_stats or not current_stats or time_delta <= 0: return {}
EarlyReturnMutNoTimeTest(cur, last, time_delta) ==
    DOMAIN last = {} \/ DOMAIN cur = {}
EarlyReturn(cur, last, time_delta) ==
    DOMAIN last = {} \/ DOMAIN cur = {} \/ time_delta <= 0

\* The divisions by time_delta a call evaluates: one for each direction of a
\* computed adapter whose counter did not go back.
Divisions(cur, last, time_delta) ==
    IF EarlyReturn(cur, last, time_delta)
    THEN {}
    ELSE {<<n, "download">> : n \in {c \in Computed(cur, last) :
                                       cur[c].received.v - last[c].received.v >= 0}}
         \cup
         {<<n, "upload">> : n \in {c \in Computed(cur, last) :
                                     cur[c].sent.v - last[c].sent.v >= 0}}

\* _calculate_speed_delta(current_stats, last_stats, time_delta)
CalculateSpeedDelta(cur, last, time_delta) ==
    IF EarlyReturn(cur, last, time_delta)
    THEN <<>>
    ELSE [n \in Computed(cur, last) |->
            [download |-> Rate(cur[n].received.v - last[n].received.v, time_delta),
             upload   |-> Rate(cur[n].sent.v - last[n].sent.v, time_delta)]]

\* ------------------------------------------------- construction

\* MainController.__init__
InitController ==
    /\ adapters_data = <<>>
    /\ selected_adapter_index = NoIndex
    /\ everSelected = {None}
    /\ refreshes = 0
    /\ selects = 0
    /\ refresh_outcome = "none"

\* PollingManager.__init__ and AppContext.__init__; no thread started yet.
InitPolling ==
    /\ is_running = FALSE
    /\ last_stats = <<>>
    /\ last_time = 0
    /\ task_queue = <<>>
    /\ clock = 0
    /\ fpc = "idle"
    /\ process = "none"
    /\ line = NoLine
    /\ g_list = <<>>
    /\ sel_name = None
    /\ current_stats = <<>>
    /\ current_time = 0
    /\ calculated_speeds = <<>>
    /\ fwake = 0
    /\ fexc = None
    /\ linesRead = 0
    /\ spc = "idle"
    /\ initial_adapter_load_done = FALSE
    /\ siter = 0
    /\ swake = 0
    /\ fetch = [k \in Kinds |-> [i \in 1..MaxIter |-> "none"]]
    /\ errors_logged = 0
    /\ failStreak = 0
    /\ refreshIters = {}
    /\ after_starts = 0
    /\ slow_threads = 0
    /\ fast_threads = 0
    /\ start_calls = 0
    /\ start_runs = 0
    /\ tasks = [i \in 1..MaxTasks |-> NoTask]
    /\ sample_log = <<>>

\* No call of run_system_command in progress.
NoCommand ==
    /\ check = TRUE
    /\ timeout = 0
    /\ childKind = "none"
    /\ cpc = "none"
    /\ child = "none"
    /\ returncode = 0
    /\ cexc = None
    /\ coutcome = None
    /\ cstart = 0
    /\ program = None
    /\ child_out = <<>>
    /\ cnamed = None
    /\ cresult = NoResult
    /\ child_err = <<>>
    /\ cmessage = NoFailure

\* The consumer before its first poll of the queue.
NoConsumer ==
    /\ kpc = "none"
    /\ message = NoMessage
    /\ after_calls = 0
    /\ produced = 0
    /\ consumer_io = 0
    /\ delivered = <<>>
    /\ dispatched = <<>>
    /\ published = [p \in {"fast", "fetch", "action"} |-> 0]
    /\ polls_pending = 0
    /\ tick_raised = FALSE

\* No direct call of _calculate_speed_delta in progress.
NoDeltaCall ==
    /\ arg_current = <<>>
    /\ arg_last = <<>>
    /\ arg_dt = 0
    /\ ret_speeds = <<>>
    /\ dpc = "none"
    /\ skip_logged = {}

\* No call of _safe_decode in progress.
NoDecodeCall ==
    /\ sd_bytes = NoBytes
    /\ oem_page = "cp437"
    /\ sd_pc = "none"
    /\ sd_ret = NoText

\* No streamed command.
NoStream ==
    /\ gpc = "none"
    /\ gchild = "none"
    /\ gpipe = "none"
    /\ gkind = "none"
    /\ gwritten = 0
    /\ gbuf = 0
    /\ gcaller = "none"

\* No disconnect-and-disable workflow.
NoFlow ==
    /\ wpc = "none"
    /\ wnow = 0
    /\ wstart = 0
    /\ wwake = 0
    /\ wlog = <<>>
    /\ wpoll_began = 0
    /\ wconfirmed_at = 0

NoAux == NoDecodeCall /\ NoStream /\ NoFlow

\* ------------------------------------------------- the event queue

\* task_queue.put(event)
Put(q, type, data) == Append(q, [type |-> type, data |-> data])

\* ------------------------------------------------- MainController

\* The name of the adapter that is the selected one in the current state, if any.
SelectedNow(data, idx) ==
    IF idx = NoIndex THEN {None}
    ELSE IF idx < Len(data) THEN {data[idx + 1]} ELSE {}

\* refresh_adapter_list: two events, then get_adapter_details returns a list
\* (stored and published), raises NetworkManagerError (published), or raises
\* something else, which refresh_adapter_list does not catch (raised = TRUE).
RefreshMutClearsFirst(raised) ==
    /\ LET q2 == Put(Put(task_queue, "clear_details", None),
                     "status_update", "status_refreshing_list")
       IN \/ /\ ~raised
             /\ \E new \in AdapterLists :
                   /\ adapters_data' = new
                   /\ task_queue' = Put(q2, "populate_adapters", new)
             /\ refresh_outcome' = "stored"
          \/ /\ ~raised
             /\ task_queue' = Put(q2, "generic_error", "retrieving network adapters")
             /\ refresh_outcome' = "NetworkManagerError"
             /\ UNCHANGED adapters_data
          \/ /\ raised
             /\ task_queue' = q2
             /\ refresh_outcome' = "raised"
             /\ UNCHANGED adapters_data
    /\ everSelected' = everSelected
                         \cup SelectedNow(adapters_data', selected_adapter_index)
    /\ UNCHANGED selected_adapter_index
Refresh(raised) ==
    /\ LET q2 == Put(Put(task_queue, "status_update", "status_refreshing_list"),
                     "clear_details", None)
       IN \/ /\ ~raised
             /\ \E new \in AdapterLists :
                   /\ adapters_data' = new
                   /\ task_queue' = Put(q2, "populate_adapters", new)
             /\ refresh_outcome' = "stored"
          \/ /\ ~raised
             /\ task_queue' = Put(q2, "generic_error", "retrieving network adapters")
             /\ refresh_outcome' = "NetworkManagerError"
             /\ UNCHANGED adapters_data
          \/ /\ raised
             /\ task_queue' = q2
             /\ refresh_outcome' = "raised"
             /\ UNCHANGED adapters_data
    /\ everSelected' = everSelected
                         \cup SelectedNow(adapters_data', selected_adapter_index)
    /\ UNCHANGED selected_adapter_index

\* refresh_adapter_list called on another thread while the fast loop runs.
RefreshAdapterList ==
    /\ refreshes < MaxRefresh
    /\ refreshes' = refreshes + 1
    /\ \E raised \in BOOLEAN : Refresh(raised)
    /\ UNCHANGED <<selects, nonFast, is_running, fastVars, clock>>

\* on_adapter_select(selected_index), called by the list box on the UI thread.
Select(selected_index) ==
    /\ IF ~(0 <= selected_index /\ selected_index < Len(adapters_data))
       THEN /\ selected_adapter_index' = NoIndex
            /\ UNCHANGED task_queue
       ELSE /\ selected_adapter_index' = selected_index
            /\ task_queue' = Put(task_queue, "update_adapter_details",
                                 adapters_data[selected_index + 1])
    /\ everSelected' = everSelected
                         \cup SelectedNow(adapters_data, selected_adapter_index')
    /\ UNCHANGED <<adapters_data, refresh_outcome>>

OnAdapterSelect ==
    /\ selects < MaxSelect
    /\ selects' = selects + 1
    /\ \E selected_index \in SelectIndexes : Select(selected_index)
    /\ UNCHANGED <<refreshes, nonFast, is_running, fastVars, clock>>

\* Calls of the controller's methods one after another, on one thread.
InitCtl == InitController /\ InitPolling /\ NoDeltaCall /\ NoCommand /\ NoConsumer
    /\ NoAux

RefreshCall ==
    /\ refreshes + selects < MaxCalls
    /\ refreshes' = refreshes + 1
    /\ \E raised \in BOOLEAN : Refresh(raised)
    /\ UNCHANGED <<selects, nonFast, is_running, fastVars, clock>>

SelectCall ==
    /\ refreshes + selects < MaxCalls
    /\ selects' = selects + 1
    /\ \E selected_index \in SelectIndexes : Select(selected_index)
    /\ UNCHANGED <<refreshes, nonFast, is_running, fastVars, clock>>

NextCtl == RefreshCall \/ SelectCall

SpecCtl == InitCtl /\ [][NextCtl]_vars

\* ------------------------------------------------- the fast loop

\* speed_interval, in ticks of the model's clock.
speed_interval == 1

\* `x or 0` for a counter read from a record of the stream.
OrZero(x) == IF x = Null \/ x = Num(0) THEN Num(0) ELSE x

\* The dict comprehension of _calculate_current_speeds over a "stats" line.
ToCurrentStats(stats) ==
    [n \in DOMAIN stats |-> [received |-> OrZero(stats[n].ReceivedBytes),
                             sent     |-> OrZero(stats[n].SentBytes)]]

\* json.loads and the comprehension raise JSONDecodeError / TypeError for these.
ParseFailsMutNever(l) == FALSE
ParseFails(l) == l.kind \in {"malformed", "scalar"}
ParsedStats(l) == IF l.kind = "stats" THEN ToCurrentStats(l.stats) ELSE <<>>

\* start_polling_threads past its first line: is_running = True, and a thread
\* is started for each loop.
\* (first, a variant without the guard on is_running)
StartThreadsMutNoGuard ==
    /\ is_running' = TRUE
    /\ spc' = "test"
    /\ fpc' = "popen"
    /\ slow_threads' = slow_threads + 1
    /\ fast_threads' = fast_threads + 1
    /\ UNCHANGED <<deltaVars, cmdVars, consVars, tasks, sample_log, auxVars, task_queue,
                   ctlVars,
                   process,
                   fastLocals, last_stats, last_time, linesRead, clock,
                   initial_adapter_load_done, siter, swake, fetch,
                   errors_logged, failStreak, refreshIters>>

\* if self.is_running: return; self.is_running = True; Thread(...).start() twice
StartThreads ==
    /\ ~is_running
    /\ is_running' = TRUE
    /\ spc' = "test"
    /\ fpc' = "popen"
    /\ slow_threads' = slow_threads + 1
    /\ fast_threads' = fast_threads + 1
    /\ UNCHANGED <<deltaVars, cmdVars, consVars, tasks, sample_log, auxVars, task_queue,
                   ctlVars,
                   process,
                   fastLocals, last_stats, last_time, linesRead, clock,
                   initial_adapter_load_done, siter, swake, fetch,
                   errors_logged, failStreak, refreshIters>>

\* start_polling_threads on an idle manager: its execution is counted, and
\* past the guard on is_running both threads start.
StartPollingThreads ==
    /\ StartThreads
    /\ start_runs' = start_runs + 1
    /\ UNCHANGED <<after_starts, start_calls>>

\* subprocess.Popen(['powershell', ...]) at the top of the fast loop.
FastPopen ==
    /\ fpc = "popen"
    /\ process' = "running"
    /\ fpc' = "loop"
    /\ UNCHANGED <<nonFast, is_running, task_queue, ctlVars, fastLocals,
                   last_stats, last_time, linesRead, clock>>

\* The statistics child exits on its own (killed, crashed, PowerShell error).
ChildExits ==
    /\ process = "running"
    /\ process' = "exited"
    /\ UNCHANGED <<nonFast, is_running, task_queue, ctlVars, fpc, fastLocals,
                   last_stats, last_time, linesRead, clock>>

\* (a variant whose condition is process.poll() is None alone)
FastLoopTestMutNoStop ==
    /\ fpc = "loop"
    /\ fpc' = IF process = "running" THEN "readline" ELSE "exited"
    /\ UNCHANGED <<nonFast, is_running, task_queue, ctlVars, process, fastLocals,
                   last_stats, last_time, linesRead, clock>>

\* while self.is_running and process.poll() is None
FastLoopTest ==
    /\ fpc = "loop"
    /\ fpc' = IF is_running /\ process = "running" THEN "readline" ELSE "exited"
    /\ UNCHANGED <<nonFast, is_running, task_queue, ctlVars, process, fastLocals,
                   last_stats, last_time, linesRead, clock>>

\* line = process.stdout.readline(): a line the child wrote, or '' at end of file.
FastReadLine ==
    /\ fpc = "readline"
    /\ \/ /\ process = "running"
          /\ linesRead < MaxLines
          /\ linesRead' = linesRead + 1
          /\ \E l \in Lines : line' = l
          /\ fpc' = "get_check"
       \/ /\ process = "exited"
          /\ line' = NoLine
          /\ fpc' = "loop"
          /\ UNCHANGED linesRead
    /\ UNCHANGED <<nonFast, is_running, task_queue, ctlVars, process, g_list,
                   sel_name, current_stats, current_time, calculated_speeds,
                   fwake, fexc, last_stats, last_time, clock>>

\* Where the loop goes with the name get_selected_adapter_name returned.
AfterGetMutNoCheck(name) == "calc"
AfterGet(name) == IF name = None THEN "sleep" ELSE "calc"

\* get_selected_adapter_name, first read: if self.selected_adapter_index is None
FastGetCheck ==
    /\ fpc = "get_check"
    /\ IF selected_adapter_index = NoIndex
       THEN /\ sel_name' = None
            /\ fpc' = AfterGet(None)
            /\ fwake' = clock + speed_interval
       ELSE /\ fpc' = "get_list"
            /\ UNCHANGED <<sel_name, fwake>>
    /\ UNCHANGED <<nonFast, is_running, task_queue, ctlVars, process, line,
                   g_list, current_stats, current_time, calculated_speeds, fexc,
                   last_stats, last_time, linesRead, clock>>

\* get_selected_adapter_name, second read: self.adapters_data
FastGetList ==
    /\ fpc = "get_list"
    /\ g_list' = adapters_data
    /\ fpc' = "get_index"
    /\ UNCHANGED <<nonFast, is_running, task_queue, ctlVars, process, line,
                   sel_name, current_stats, current_time, calculated_speeds,
                   fwake, fexc, last_stats, last_time, linesRead, clock>>

\* get_selected_adapter_name, third read: self.selected_adapter_index again,
\* then the subscript and .get('Name').
FastGetIndex ==
    /\ fpc = "get_index"
    /\ IF selected_adapter_index = NoIndex
       THEN /\ fexc' = "TypeError"
            /\ fpc' = "raised"
            /\ UNCHANGED <<sel_name, fwake>>
       ELSE IF selected_adapter_index >= Len(g_list)
       THEN /\ fexc' = "IndexError"
            /\ fpc' = "raised"
            /\ UNCHANGED <<sel_name, fwake>>
       ELSE /\ sel_name' = g_list[selected_adapter_index + 1]
            /\ fpc' = AfterGet(sel_name')
            /\ fwake' = IF sel_name' = None THEN clock + speed_interval ELSE fwake
            /\ UNCHANGED fexc
    /\ g_list' = <<>>
    /\ UNCHANGED <<nonFast, is_running, task_queue, ctlVars, process, line,
                   current_stats, current_time, calculated_speeds,
                   last_stats, last_time, linesRead, clock>>

\* (a variant that takes the skipped line as the retained sample)
FastSkipMutAdvance ==
    /\ fpc = "sleep"
    /\ clock >= fwake
    /\ fwake' = 0
    /\ fpc' = "loop"
    /\ last_stats' = ParsedStats(line)
    /\ last_time' = clock
    /\ UNCHANGED <<nonFast, is_running, task_queue, ctlVars, process, line,
                   g_list, sel_name, current_stats, current_time,
                   calculated_speeds, fexc, linesRead, clock>>

\* No adapter selected: time.sleep(self.speed_interval); continue
FastSkip ==
    /\ fpc = "sleep"
    /\ clock >= fwake
    /\ fwake' = 0
    /\ fpc' = "loop"
    /\ UNCHANGED <<nonFast, is_running, task_queue, ctlVars, process, line,
                   g_list, sel_name, current_stats, current_time,
                   calculated_speeds, fexc, last_stats, last_time, linesRead, clock>>

\* _calculate_current_speeds up to the call of _calculate_speed_delta.
FastCalc ==
    /\ fpc = "calc"
    /\ IF ParseFails(line)
       THEN /\ calculated_speeds' = <<>>
            /\ fpc' = "publish"
            /\ UNCHANGED <<current_stats, current_time, sample_log>>
       ELSE /\ current_stats' = ParsedStats(line)
            /\ current_time' = clock
            /\ calculated_speeds' =
                  CalculateSpeedDelta(current_stats', last_stats, clock - last_time)
            /\ sample_log' = Append(sample_log,
                  [stats |-> current_stats', time |-> clock,
                   speeds |-> calculated_speeds'])
            /\ fpc' = "update"
    /\ UNCHANGED <<deltaVars, slowVars, cmdVars, consVars, startVars, tasks, auxVars,
                   is_running, task_queue, ctlVars, process, line,
                   g_list, sel_name, fwake, fexc, last_stats, last_time,
                   linesRead, clock>>

\* (a variant that stores the time of the call but not its sample)
FastUpdateMutNoBaseline ==
    /\ fpc = "update"
    /\ last_time' = current_time
    /\ fpc' = "publish"
    /\ UNCHANGED <<nonFast, is_running, task_queue, ctlVars, process, fastLocals,
                   last_stats, linesRead, clock>>

\* _calculate_current_speeds: self.last_stats, self.last_time = current ones.
FastUpdate ==
    /\ fpc = "update"
    /\ last_stats' = current_stats
    /\ last_time' = current_time
    /\ fpc' = "publish"
    /\ UNCHANGED <<nonFast, is_running, task_queue, ctlVars, process, fastLocals,
                   linesRead, clock>>

\* if calculated_speeds: self.task_queue.put({'type': 'speed_update', ...})
FastPublish ==
    /\ fpc = "publish"
    /\ task_queue' = IF calculated_speeds # <<>>
                     THEN Put(task_queue, "speed_update", calculated_speeds)
                     ELSE task_queue
    /\ fpc' = "loop"
    \* the call's locals go out of scope
    /\ current_stats' = <<>>
    /\ current_time' = 0
    /\ calculated_speeds' = <<>>
    /\ UNCHANGED <<nonFast, is_running, ctlVars, process, line, g_list, sel_name,
                   fwake, fexc, last_stats, last_time, linesRead, clock>>

\* time passes
Tick ==
    /\ clock < MaxTime
    /\ clock' = clock + 1
    /\ UNCHANGED <<nonFast, is_running, task_queue, ctlVars, fastVars>>

InitFast == InitController /\ InitPolling /\ NoDeltaCall /\ NoCommand /\ NoConsumer
    /\ NoAux

NextFast ==
    \/ StartPollingThreads
    \/ FastPopen
    \/ ChildExits
    \/ FastLoopTest
    \/ FastReadLine
    \/ FastGetCheck
    \/ FastGetList
    \/ FastGetIndex
    \/ FastSkip
    \/ FastCalc
    \/ FastUpdate
    \/ FastPublish
    \/ RefreshAdapterList
    \/ OnAdapterSelect
    \/ Tick

SpecFast == InitFast /\ [][NextFast]_vars

\* ------------------------------------------------- the slow loop

\* diagnostics_interval, in ticks of the model's clock.
diagnostics_interval == 5

\* The event a fetch thread publishes.
EventOf(k) == IF k = "diagnostics" THEN "diagnostics_update" ELSE "wifi_status_update"

\* What the fetch started for kind k in iteration i will do: return its data
\* ("ok"), or not ("lost": it raises, which ends its thread with nothing
\* published and nothing caught, or it never returns).
Fates == {"ok", "lost"}

\* (a variant without the except clause: the exception ends the thread)
SlowCaughtMutUncaught ==
    /\ failStreak' = failStreak + 1
    /\ spc' = "exited"
    /\ UNCHANGED <<errors_logged, swake>>

\* except Exception: logger.error(...); finally: time.sleep(diagnostics_interval)
SlowCaught ==
    /\ errors_logged' = errors_logged + 1
    /\ failStreak' = failStreak + 1
    /\ swake' = clock + diagnostics_interval
    /\ spc' = "sleep"

\* while self.is_running: ... if not initial_adapter_load_done
SlowTest ==
    /\ spc = "test"
    /\ IF ~is_running
       THEN /\ spc' = "exited"
            /\ UNCHANGED siter
       ELSE /\ siter < MaxIter
            /\ siter' = siter + 1
            /\ spc' = IF ~initial_adapter_load_done THEN "refresh" ELSE "spawn_diag"
    /\ UNCHANGED <<nonSlow, is_running, task_queue, ctlVars, clock,
                   initial_adapter_load_done, swake, fetch, errors_logged,
                   failStreak, refreshIters>>

\* self.controller.refresh_adapter_list(); initial_adapter_load_done = True
SlowRefresh ==
    /\ spc = "refresh"
    /\ refreshIters' = refreshIters \cup {siter}
    /\ \E raised \in BOOLEAN :
          /\ Refresh(raised)
          /\ IF raised
             THEN /\ SlowCaught
                  /\ UNCHANGED initial_adapter_load_done
             ELSE /\ initial_adapter_load_done' = TRUE
                  /\ spc' = "spawn_diag"
                  /\ UNCHANGED <<errors_logged, failStreak, swake>>
    /\ UNCHANGED <<nonSlow, is_running, refreshes, selects, clock, siter, fetch>>

\* threading.Thread(target=fetch_diagnostics, daemon=True).start()
SlowSpawnDiag ==
    /\ spc = "spawn_diag"
    /\ \/ /\ \E fate \in Fates :
                fetch' = [fetch EXCEPT !["diagnostics"][siter] = fate]
          /\ spc' = "spawn_wifi"
          /\ UNCHANGED <<errors_logged, failStreak, swake>>
       \/ \* start() raises RuntimeError: the thread cannot be started
          /\ SlowCaught
          /\ UNCHANGED fetch
    /\ UNCHANGED <<nonSlow, is_running, task_queue, ctlVars, clock,
                   initial_adapter_load_done, siter, refreshIters>>

\* threading.Thread(target=fetch_wifi_details, daemon=True).start(), then
\* finally: time.sleep(self.diagnostics_interval)
SlowSpawnWifi ==
    /\ spc = "spawn_wifi"
    /\ \/ /\ \E fate \in Fates :
                fetch' = [fetch EXCEPT !["wifi_status"][siter] = fate]
          /\ swake' = clock + diagnostics_interval
          /\ spc' = "sleep"
          /\ failStreak' = 0
          /\ UNCHANGED errors_logged
       \/ /\ SlowCaught
          /\ UNCHANGED fetch
    /\ UNCHANGED <<nonSlow, is_running, task_queue, ctlVars, clock,
                   initial_adapter_load_done, siter, refreshIters>>

\* time.sleep returns
SlowWake ==
    /\ spc = "sleep"
    /\ clock >= swake
    /\ spc' = "test"
    /\ UNCHANGED <<nonSlow, is_running, task_queue, ctlVars, clock,
                   initial_adapter_load_done, siter, swake, fetch, errors_logged,
                   failStreak, refreshIters>>

\* (a variant that fetches both in one thread, diagnostics first)
FetchReturnsMutSequential(k, i) ==
    /\ fetch[k][i] = "ok"
    /\ k = "wifi_status" => fetch["diagnostics"][i] = "published"
    /\ fetch' = [fetch EXCEPT ![k][i] = "published"]
    /\ task_queue' = Put(task_queue, EventOf(k), i)
    /\ UNCHANGED <<nonSlow, is_running, ctlVars, clock, spc,
                   initial_adapter_load_done, siter, swake, errors_logged,
                   failStreak, refreshIters>>

\* fetch_diagnostics / fetch_wifi_details: the data arrives and is published.
FetchReturns(k, i) ==
    /\ fetch[k][i] = "ok"
    /\ fetch' = [fetch EXCEPT ![k][i] = "published"]
    /\ task_queue' = Put(task_queue, EventOf(k), i)
    /\ UNCHANGED <<nonSlow, is_running, ctlVars, clock, spc,
                   initial_adapter_load_done, siter, swake, errors_logged,
                   failStreak, refreshIters>>

\* time passes, observed once per polling interval of the slow loop
SlowTick ==
    /\ clock < MaxSlowTicks * diagnostics_interval
    /\ clock' = clock + diagnostics_interval
    /\ UNCHANGED <<nonSlow, is_running, task_queue, ctlVars, slowVars>>

InitSlow == InitController /\ InitPolling /\ NoDeltaCall /\ NoCommand /\ NoConsumer
    /\ NoAux

NextSlow ==
    \/ StartPollingThreads
    \/ SlowTest
    \/ SlowRefresh
    \/ SlowSpawnDiag
    \/ SlowSpawnWifi
    \/ SlowWake
    \/ \E k \in Kinds, i \in 1..MaxIter : FetchReturns(k, i)
    \/ SlowTick

SpecSlow == InitSlow /\ [][NextSlow]_vars

\* ------------------------------------------------- both loops and a stop

\* A stop request: is_running is set to False from outside the loops.
StopRequest ==
    /\ is_running
    /\ is_running' = FALSE
    /\ UNCHANGED <<deltaVars, cmdVars, consVars, startVars, tasks, sample_log, auxVars,
                   task_queue,
                   ctlVars, fastVars, slowVars, clock>>

\* The one start of the session: start_polling_threads on an idle manager.
StartOnce == fpc = "idle" /\ StartPollingThreads

InitStop == InitController /\ InitPolling /\ NoDeltaCall /\ NoCommand /\ NoConsumer
    /\ NoAux

\* A step of the fast loop's thread; a step of the slow loop's thread.
FastLoopStep ==
    \/ FastPopen
    \/ FastLoopTest
    \/ FastReadLine
    \/ FastGetCheck
    \/ FastGetList
    \/ FastGetIndex
    \/ FastSkip
    \/ FastCalc
    \/ FastUpdate
    \/ FastPublish
SlowLoopStep ==
    \/ SlowTest
    \/ SlowRefresh
    \/ SlowSpawnDiag
    \/ SlowSpawnWifi
    \/ SlowWake

\* The loops share is_running and the queue only, so a behaviour follows the
\* iterations of one of them: the fast loop runs while the slow loop has begun
\* no iteration, the slow loop while the fast loop has read no line. Either
\* loop can always evaluate its condition and exit. The UI thread refreshes
\* and selects in the behaviours of the fast loop, which reads what it writes.
\* Time passes in steps of the longer interval.
NextStop ==
    \/ StartOnce
    \/ StopRequest
    \/ siter = 0 /\ FastLoopStep
    \/ ~is_running /\ FastLoopTest
    \/ linesRead = 0 /\ SlowLoopStep
    \/ ~is_running /\ SlowTest
    \/ ChildExits
    \/ siter = 0 /\ RefreshAdapterList
    \/ siter = 0 /\ OnAdapterSelect
    \/ SlowTick

SpecStop == InitStop /\ [][NextStop]_vars

\* ------------------------------------------------- starting the loops

\* start_all(diagnostics_interval, speed_interval): the UI thread schedules
\* start_polling_threads with root.after.
StartAll ==
    /\ start_calls < MaxStartCalls
    /\ start_calls' = start_calls + 1
    /\ after_starts' = after_starts + 1
    /\ UNCHANGED <<slow_threads, fast_threads, start_runs, deltaVars, cmdVars,
                   consVars, tasks, sample_log, auxVars, is_running, task_queue,
                   ctlVars,
                   fastVars, slowVars,
                   clock>>

\* start_polling_threads called while the loops run: `if self.is_running: return`
StartReturns ==
    /\ is_running
    /\ UNCHANGED <<slow_threads, fast_threads, deltaVars, cmdVars, consVars, tasks,
                   sample_log, auxVars, is_running, task_queue, ctlVars, fastVars,
                   slowVars,
                   clock>>

\* The Tk event loop runs a scheduled start_polling_threads.
StartCallback ==
    /\ after_starts > 0
    /\ after_starts' = after_starts - 1
    /\ start_runs' = start_runs + 1
    /\ UNCHANGED start_calls
    /\ (StartReturns \/ StartThreads)

\* start_polling_threads called directly on the UI thread.
StartDirect ==
    /\ start_calls < MaxStartCalls
    /\ start_calls' = start_calls + 1
    /\ start_runs' = start_runs + 1
    /\ UNCHANGED after_starts
    /\ (StartReturns \/ StartThreads)

InitStart == InitController /\ InitPolling /\ NoDeltaCall /\ NoCommand /\ NoConsumer
    /\ NoAux

NextStart ==
    \/ StartAll
    \/ StartCallback
    \/ StartDirect
    \/ FastPopen
    \/ ChildExits
    \/ FastLoopTest
    \/ FastReadLine
    \/ FastGetCheck
    \/ FastSkip
    \/ Tick

SpecStart == InitStart /\ [][NextStart]_vars

\* ------------------------------------------------- SpecDelta: the function

InitDelta ==
    /\ arg_current \in AllStats
    /\ arg_last \in AllStats
    /\ arg_dt \in -1..MaxDt
    /\ ret_speeds = <<>>
    /\ dpc = "call"
    /\ skip_logged = {}
    /\ InitController
    /\ InitPolling
    /\ NoCommand
    /\ NoConsumer
    /\ NoAux

CallSpeedDelta ==
    /\ dpc = "call"
    /\ ret_speeds' = CalculateSpeedDelta(arg_current, arg_last, arg_dt)
    /\ dpc' = "returned"
    \* `continue # Skip this adapter if data is invalid`: no logger call
    /\ skip_logged' = skip_logged
    /\ UNCHANGED <<arg_current, arg_last, arg_dt, nonDelta>>

NextDelta == CallSpeedDelta

SpecDelta == InitDelta /\ [][NextDelta]_vars

\* ------------------------------------------------- _safe_decode

\* The outcome of bytes.decode: the text, or UnicodeDecodeError.
Decoded(text) == [ok |-> TRUE, text |-> text]
DecodeError == [ok |-> FALSE, text |-> <<>>]
Cons(c, d) == IF d.ok THEN Decoded(<<c>> \o d.text) ELSE DecodeError

\* byte_string.decode('utf-8', errors='strict')
RECURSIVE Utf8Decode(_)
Utf8Decode(b) ==
    IF b = <<>> THEN Decoded(<<>>)
    ELSE IF Head(b) = "x41" THEN Cons("A", Utf8Decode(Tail(b)))
    ELSE IF Head(b) = "x20" THEN Cons("SPACE", Utf8Decode(Tail(b)))
    ELSE IF Head(b) = "xC3" /\ Len(b) >= 2 /\ b[2] = "x84"
         THEN Cons("A_DIAERESIS", Utf8Decode(SubSeq(b, 3, Len(b))))
    ELSE DecodeError

\* byte_string.decode('oem', errors='strict') on a machine with the code page
RECURSIVE OemDecode(_, _)
OemDecode(page, b) ==
    IF b = <<>> THEN Decoded(<<>>)
    ELSE IF Head(b) = "x41" THEN Cons("A", OemDecode(page, Tail(b)))
    ELSE IF Head(b) = "x20" THEN Cons("SPACE", OemDecode(page, Tail(b)))
    ELSE IF page = "cp437"
         THEN Cons(CASE Head(b) = "xC3" -> "BOX_VERTICAL_RIGHT"
                     [] Head(b) = "x84" -> "a_DIAERESIS"
                     [] Head(b) = "xFF" -> "NBSP",
                   OemDecode(page, Tail(b)))
    ELSE IF Head(b) = "xC3" THEN Cons("KATAKANA_TE", OemDecode(page, Tail(b)))
    ELSE IF Head(b) = "x84" /\ Len(b) >= 2 /\ b[2] = "x41"
         THEN Cons("CYRILLIC_BE", OemDecode(page, SubSeq(b, 3, Len(b))))
    ELSE DecodeError

\* byte_string.decode('ascii', errors='replace'): U+FFFD for a byte over 0x7F
RECURSIVE AsciiReplaceDecode(_)
AsciiReplaceDecode(b) ==
    IF b = <<>> THEN Decoded(<<>>)
    ELSE Cons(CASE Head(b) = "x41" -> "A"
                [] Head(b) = "x20" -> "SPACE"
                [] OTHER -> "FFFD",
              AsciiReplaceDecode(Tail(b)))

\* str.strip(): whitespace off both ends; U+00A0 is whitespace for str.
Whitespace == {"SPACE", "NBSP"}
RECURSIVE Strip(_)
Strip(text) ==
    IF text = <<>> THEN <<>>
    ELSE IF Head(text) \in Whitespace THEN Strip(Tail(text))
    ELSE IF text[Len(text)] \in Whitespace THEN Strip(SubSeq(text, 1, Len(text) - 1))
    ELSE text

\* .replace('\ufffd', '?')
QuestionMarks(text) == [i \in DOMAIN text |-> IF text[i] = "FFFD" THEN "?" ELSE text[i]]

\* _safe_decode(byte_string)
SafeDecodeMutOemFirst(bs, page) ==
    IF bs.none \/ bs.b = <<>> THEN NoText
    ELSE IF OemDecode(page, bs.b).ok
    THEN [raised |-> FALSE, used |-> "oem", text |-> Strip(OemDecode(page, bs.b).text)]
    ELSE IF Utf8Decode(bs.b).ok
    THEN [raised |-> FALSE, used |-> "utf-8", text |-> Strip(Utf8Decode(bs.b).text)]
    ELSE [raised |-> ~AsciiReplaceDecode(bs.b).ok, used |-> "ascii",
          text |-> QuestionMarks(Strip(AsciiReplaceDecode(bs.b).text))]
SafeDecode(bs, page) ==
    IF bs.none \/ bs.b = <<>> THEN NoText
    ELSE IF Utf8Decode(bs.b).ok
    THEN [raised |-> FALSE, used |-> "utf-8", text |-> Strip(Utf8Decode(bs.b).text)]
    ELSE IF OemDecode(page, bs.b).ok
    THEN [raised |-> FALSE, used |-> "oem", text |-> Strip(OemDecode(page, bs.b).text)]
    ELSE [raised |-> ~AsciiReplaceDecode(bs.b).ok, used |-> "ascii",
          text |-> QuestionMarks(Strip(AsciiReplaceDecode(bs.b).text))]

InitDecode ==
    /\ sd_bytes \in {NoBytes} \cup {SomeBytes(b) : b \in ByteStrings}
    /\ oem_page \in OemPages
    /\ sd_pc = "call"
    /\ sd_ret = NoText
    /\ NoStream /\ NoFlow
    /\ InitController /\ InitPolling /\ NoDeltaCall /\ NoCommand /\ NoConsumer

CallSafeDecode ==
    /\ sd_pc = "call"
    /\ sd_ret' = SafeDecode(sd_bytes, oem_page)
    /\ sd_pc' = IF sd_ret'.raised THEN "raised" ELSE "returned"
    /\ UNCHANGED <<sd_bytes, oem_page, streamVars, flowVars, core>>

NextDecode == CallSafeDecode

SpecDecode == InitDecode /\ [][NextDecode]_vars

\* ------------------------------------------------- run_system_command

\* What a command does: the executable is missing, the child terminates at a
\* moment of its own, or it never terminates.
ChildKinds == {"missing", "terminates", "never"}

\* The call's arguments, and the command it is made on.
InitCmd ==
    /\ check \in BOOLEAN
    /\ timeout \in 1..MaxTimeout
    /\ childKind \in ChildKinds
    /\ cpc = "popen"
    /\ child = "none"
    /\ returncode = 0
    /\ cexc = None
    /\ coutcome = None
    /\ cstart = 0
    /\ program \in Programs
    /\ child_out = <<>>
    /\ cnamed = None
    /\ cresult = NoResult
    /\ child_err = <<>>
    /\ cmessage = NoFailure
    /\ oem_page \in OemPages
    /\ sd_bytes = NoBytes /\ sd_pc = "none" /\ sd_ret = NoText
    /\ NoStream /\ NoFlow
    /\ InitController /\ InitPolling /\ NoDeltaCall /\ NoConsumer

\* with subprocess.Popen(...) as process: the child starts, or the executable
\* is not found and the call raises NetworkManagerError.
CmdPopen ==
    /\ cpc = "popen"
    /\ IF childKind = "missing"
       THEN /\ cpc' = "raised"
            /\ coutcome' = "not found"
            \* f"Command '{command[0]}' not found. ..."
            /\ cnamed' = program
            /\ UNCHANGED <<child, cstart>>
       ELSE /\ cpc' = "communicate"
            /\ child' = "running"
            /\ cstart' = clock
            /\ UNCHANGED <<coutcome, cnamed>>
    /\ UNCHANGED <<check, timeout, childKind, returncode, cexc, program, child_out,
                   child_err, cmessage,
                   cresult, clock, nonCmd>>

\* The child terminates on its own, with some return code and output.
ChildTerminates ==
    /\ child = "running"
    /\ childKind = "terminates"
    /\ child' = "exited"
    /\ \E rc \in {0, 1} : returncode' = rc
    /\ \E out \in Outputs : child_out' = out
    /\ \E err \in Outputs : child_err' = err
    /\ UNCHANGED <<cmessage, check, timeout, childKind, cpc, cexc, coutcome, cstart, program,
                   cnamed, cresult, clock, nonCmd>>

\* if check and process.returncode != 0: raise CalledProcessError
RaisesOnMutIgnoresCheck(chk, rc) == rc # 0
RaisesOn(chk, rc) == chk /\ rc # 0

\* process.communicate(timeout=timeout) returns: the child has exited. A return
\* code other than 0 raises CalledProcessError when check is set.
CmdCommunicateReturns ==
    /\ cpc = "communicate"
    /\ child = "exited"
    /\ cexc' = IF RaisesOn(check, returncode) THEN "CalledProcessError" ELSE None
    /\ cpc' = "exit"
    /\ UNCHANGED <<check, timeout, childKind, child, returncode, coutcome, cstart,
                   program, child_out, child_err, cmessage, cnamed, cresult, clock,
                   nonCmd>>

\* process.communicate(timeout=timeout) raises TimeoutExpired: the child is
\* still running when the timeout has passed. communicate leaves the child as
\* it is.
CmdCommunicateTimesOut ==
    /\ cpc = "communicate"
    /\ child = "running"
    /\ clock >= cstart + timeout
    /\ cexc' = "TimeoutExpired"
    /\ cpc' = "exit"
    /\ UNCHANGED <<check, timeout, childKind, child, returncode, coutcome, cstart,
                   program, child_out, child_err, cmessage, cnamed, cresult, clock,
                   nonCmd>>

\* `a or b` for two strings.
OrMutPrefersSecond(a, b) == IF b # <<>> THEN b ELSE a
Or(a, b) == IF a # <<>> THEN a ELSE b

\* except CalledProcessError: stdout and stderr through _safe_decode, and
\* f"{error_message_prefix}: {stderr or stdout or 'An unknown error occurred.'}"
FailureMessage(out, err, page) ==
    LET stdout == SafeDecode(SomeBytes(out), page).text
        stderr == SafeDecode(SomeBytes(err), page).text
    IN [prefixed |-> TRUE, text |-> Or(Or(stderr, stdout), GenericText)]

\* What the call ends with, by the exception that left the with block.
OutcomeOf(exc) ==
    CASE exc = None -> "CompletedProcess"
      [] exc = "CalledProcessError" -> "failed"
      [] exc = "TimeoutExpired" -> "timed out"

\* Leaving the with block: Popen.__exit__ closes the pipes and calls
\* self.wait(), which returns once the child has exited; then the return, or
\* the except clause for the exception in flight, ends the call.
CmdExit ==
    /\ cpc = "exit"
    /\ child = "exited"
    /\ coutcome' = OutcomeOf(cexc)
    /\ cpc' = IF cexc = None THEN "returned" ELSE "raised"
    \* CompletedProcess(command, process.returncode, stdout_bytes, stderr_bytes)
    /\ cresult' = IF cexc = None
                  THEN [returncode |-> returncode, stdout |-> child_out,
                        stderr |-> child_err]
                  ELSE cresult
    /\ cmessage' = IF cexc = "CalledProcessError"
                   THEN FailureMessage(child_out, child_err, oem_page)
                   ELSE cmessage
    \* the message of the timeout error has ' '.join(command); that of a failed
    \* command has the prefix and the command's decoded output
    /\ cnamed' = IF cexc = "TimeoutExpired" THEN program ELSE cnamed
    /\ UNCHANGED <<check, timeout, childKind, child, returncode, cexc, cstart,
                   program, child_out, child_err, clock, nonCmd>>

\* Time passes.
CmdTick ==
    /\ clock < MaxCmdTime
    /\ clock' = clock + 1
    /\ UNCHANGED <<cmdVars, nonCmd>>

NextCmd ==
    \/ CmdPopen
    \/ ChildTerminates
    \/ CmdCommunicateReturns
    \/ CmdCommunicateTimesOut
    \/ CmdExit
    \/ CmdTick

SpecCmd == InitCmd /\ [][NextCmd]_vars

\* ------------------------------------------------- _stream_ps_command

\* What the child of a streamed command does: it writes its lines and exits;
\* it writes a line and then waits without writing or exiting; it keeps
\* writing, and exits when a write fails because the pipe was closed.
StreamKinds == {"finishes", "silent", "writer"}

\* run_ps_command(script, stream_output=True) has returned the generator;
\* nothing of its body has run.
InitStream ==
    /\ gpc = "created"
    /\ gchild = "none"
    /\ gpipe = "none"
    /\ gkind \in StreamKinds
    /\ gwritten = 0
    /\ gbuf = 0
    /\ gcaller = "consuming"
    /\ NoDecodeCall /\ NoFlow
    /\ InitController /\ InitPolling /\ NoDeltaCall /\ NoCommand /\ NoConsumer

\* The caller's first next(): with subprocess.Popen(...) as process
GenStart ==
    /\ gpc = "created"
    /\ gcaller = "consuming"
    /\ gchild' = "running"
    /\ gpipe' = "open"
    /\ gpc' = "readline"
    /\ UNCHANGED <<gkind, gwritten, gbuf, gcaller, decVars, flowVars, core>>

\* The child writes a line to its stdout.
ChildWrites ==
    /\ gchild = "running"
    /\ gpipe = "open"
    /\ gwritten < (IF gkind = "silent" THEN 1 ELSE MaxStreamLines)
    /\ gwritten' = gwritten + 1
    /\ gbuf' = gbuf + 1
    /\ UNCHANGED <<gpc, gchild, gpipe, gkind, gcaller, decVars, flowVars, core>>

\* The child exits: at a moment of its own, or on a write to the closed pipe.
StreamChildExits ==
    /\ gchild = "running"
    /\ gkind = "finishes" \/ (gkind = "writer" /\ gpipe = "closed")
    /\ gchild' = "exited"
    /\ UNCHANGED <<gpc, gpipe, gkind, gwritten, gbuf, gcaller, decVars, flowVars, core>>

\* process.stdout.readline returns a line: yield line.strip()
GenYield ==
    /\ gpc = "readline"
    /\ gbuf > 0
    /\ gbuf' = gbuf - 1
    /\ gpc' = "suspended"
    /\ UNCHANGED <<gchild, gpipe, gkind, gwritten, gcaller, decVars, flowVars, core>>

\* process.stdout.readline returns '': the child closed its stdout. The for
\* loop ends and the with block is left.
GenEndOfFile ==
    /\ gpc = "readline"
    /\ gbuf = 0
    /\ gchild = "exited"
    /\ gpc' = "exit"
    /\ UNCHANGED <<gchild, gpipe, gkind, gwritten, gbuf, gcaller, decVars, flowVars, core>>

\* The caller asks for the next line.
GenNext ==
    /\ gpc = "suspended"
    /\ gcaller = "consuming"
    /\ gpc' = "readline"
    /\ UNCHANGED <<gchild, gpipe, gkind, gwritten, gbuf, gcaller, decVars, flowVars, core>>

\* The caller stops consuming and keeps the generator.
CallerStops ==
    /\ gpc \in {"created", "suspended"}
    /\ gcaller = "consuming"
    /\ gcaller' = "stopped"
    /\ UNCHANGED <<gpc, gchild, gpipe, gkind, gwritten, gbuf, decVars, flowVars, core>>

\* The caller closes the generator or drops its last reference to it:
\* GeneratorExit is raised at the yield and the with block is left. A
\* generator that never started just ends.
CallerCloses ==
    /\ gpc \in {"created", "suspended"}
    /\ gcaller \in {"consuming", "stopped"}
    /\ gcaller' = "closed"
    /\ gpc' = IF gpc = "created" THEN "ended" ELSE "exit"
    /\ UNCHANGED <<gchild, gpipe, gkind, gwritten, gbuf, decVars, flowVars, core>>

\* Popen.__exit__: the pipe is closed ...
GenExit ==
    /\ gpc = "exit"
    /\ gpipe' = "closed"
    /\ gbuf' = 0
    /\ gpc' = "wait"
    /\ UNCHANGED <<gchild, gkind, gwritten, gcaller, decVars, flowVars, core>>

\* ... and self.wait() returns once the child has exited.
GenWait ==
    /\ gpc = "wait"
    /\ gchild = "exited"
    /\ gchild' = "reaped"
    /\ gpc' = "ended"
    /\ UNCHANGED <<gpipe, gkind, gwritten, gbuf, gcaller, decVars, flowVars, core>>

NextStream ==
    \/ GenStart
    \/ ChildWrites
    \/ StreamChildExits
    \/ GenYield
    \/ GenEndOfFile
    \/ GenNext
    \/ CallerStops
    \/ CallerCloses
    \/ GenExit
    \/ GenWait

\* The generator's own steps are taken when they can be, a child that is to
\* exit does, and a generator the caller has stopped consuming is closed.
SpecStream ==
    /\ InitStream
    /\ [][NextStream]_vars
    /\ WF_vars(GenExit) /\ WF_vars(GenWait) /\ WF_vars(StreamChildExits)
    /\ WF_vars(gcaller = "stopped" /\ CallerCloses)

\* ------------------------------------------------- disconnect and disable

DISCONNECT_TIMEOUT_SECONDS == 5
POLL_INTERVAL_SECONDS == 1

\* The generator has been created and its consumer iterates it to the end.
InitFlow ==
    /\ wpc = "start"
    /\ wnow = 0
    /\ wstart = 0
    /\ wwake = 0
    /\ wlog = <<>>
    /\ wpoll_began = 0
    /\ wconfirmed_at = 0
    /\ NoDecodeCall /\ NoStream
    /\ InitController /\ InitPolling /\ NoDeltaCall /\ NoCommand /\ NoConsumer

\* yield "Step 1/3 ..."; disconnect_wifi() returns, or raises
\* NetworkManagerError and the workflow ends.
FlowDisconnect ==
    /\ wpc = "start"
    /\ \/ /\ wlog' = wlog \o <<"yield 1", "disconnect_wifi">>
          /\ wpc' = "confirm"
       \/ /\ wlog' = wlog \o <<"yield 1", "disconnect_wifi", "raised">>
          /\ wpc' = "raised"
    /\ UNCHANGED <<wnow, wstart, wwake, wpoll_began, wconfirmed_at, decVars,
                   streamVars, core>>

\* yield "Step 2/3 ..."; start_time = time.time()
FlowConfirm ==
    /\ wpc = "confirm"
    /\ wlog' = Append(wlog, "yield 2")
    /\ wstart' = wnow
    /\ wpc' = "test"
    /\ UNCHANGED <<wnow, wwake, wpoll_began, wconfirmed_at, decVars, streamVars, core>>

\* (a variant that goes on to the disable when the time is up)
FlowTestMutNoRaise ==
    /\ wpc = "test"
    /\ IF wnow - wstart < DISCONNECT_TIMEOUT_SECONDS
       THEN /\ wpc' = "poll"
            /\ wpoll_began' = wnow
            /\ wlog' = Append(wlog, "get_current_wifi_details")
       ELSE /\ wpc' = "disable"
            /\ wlog' = wlog
            /\ UNCHANGED wpoll_began
    /\ UNCHANGED <<wnow, wstart, wwake, wconfirmed_at, decVars, streamVars, core>>

\* while time.time() - start_time < DISCONNECT_TIMEOUT_SECONDS: the call of
\* get_current_wifi_details begins; else: raise NetworkManagerError
FlowTest ==
    /\ wpc = "test"
    /\ IF wnow - wstart < DISCONNECT_TIMEOUT_SECONDS
       THEN /\ wpc' = "poll"
            /\ wpoll_began' = wnow
            /\ wlog' = Append(wlog, "get_current_wifi_details")
       ELSE /\ wpc' = "raised"
            /\ wlog' = Append(wlog, "raised: not confirmed")
            /\ UNCHANGED wpoll_began
    /\ UNCHANGED <<wnow, wstart, wwake, wconfirmed_at, decVars, streamVars, core>>

\* get_current_wifi_details returns, after the time its commands took: None
\* (not connected, or a command failed) and the loop is left, or the details
\* of the connection and time.sleep(POLL_INTERVAL_SECONDS) begins.
FlowPollReturns ==
    /\ wpc = "poll"
    /\ \/ /\ wlog' = Append(wlog, "None")
          /\ wconfirmed_at' = wnow
          /\ wpc' = "disable"
          /\ UNCHANGED wwake
       \/ /\ wlog' = Append(wlog, "details")
          /\ wwake' = wnow + POLL_INTERVAL_SECONDS
          /\ wpc' = "sleep"
          /\ UNCHANGED wconfirmed_at
    /\ UNCHANGED <<wnow, wstart, wpoll_began, decVars, streamVars, core>>

\* time.sleep returns.
FlowWake ==
    /\ wpc = "sleep"
    /\ wnow >= wwake
    /\ wpc' = "test"
    /\ UNCHANGED <<wnow, wstart, wwake, wlog, wpoll_began, wconfirmed_at, decVars,
                   streamVars, core>>

\* yield "Step 3/3 ..."; set_network_adapter_status_windows(adapter_name,
\* 'disable') returns, or raises NetworkManagerError and the workflow ends.
FlowDisable ==
    /\ wpc = "disable"
    /\ \/ /\ wlog' = wlog \o <<"yield 3", "disable", "disable returned">>
          /\ wpc' = "success"
       \/ /\ wlog' = wlog \o <<"yield 3", "disable", "raised">>
          /\ wpc' = "raised"
    /\ UNCHANGED <<wnow, wstart, wwake, wpoll_began, wconfirmed_at, decVars,
                   streamVars, core>>

\* yield "Successfully disabled ..."; the generator ends.
FlowSuccess ==
    /\ wpc = "success"
    /\ wlog' = Append(wlog, "yield success")
    /\ wpc' = "ended"
    /\ UNCHANGED <<wnow, wstart, wwake, wpoll_began, wconfirmed_at, decVars,
                   streamVars, core>>

\* A second passes.
FlowTick ==
    /\ wnow < MaxFlowTime
    /\ wnow' = wnow + 1
    /\ UNCHANGED <<wpc, wstart, wwake, wlog, wpoll_began, wconfirmed_at, decVars,
                   streamVars, core>>

NextFlow ==
    \/ FlowDisconnect
    \/ FlowConfirm
    \/ FlowTest
    \/ FlowPollReturns
    \/ FlowWake
    \/ FlowDisable
    \/ FlowSuccess
    \/ FlowTick

SpecFlow == InitFlow /\ [][NextFlow]_vars

\* ------------------------------------------------- the queue's consumer

\* Events the worker threads of the action handler put on the queue.
WorkerEvents ==
    {"toggle_success", "toggle_error", "release_renew_success", "flush_dns_success"}

\* The keys of WifiQueueHandler.handler_map and of QueueHandler.handler_map.
WifiTypes ==
    {"wifi_list_success", "wifi_connect_success", "wifi_saved_profiles_success",
     "wifi_delete_profile_success"}
MainTypes ==
    {"toggle_success", "toggle_error", "diagnostics_update", "wifi_status_update",
     "status_update", "speed_update", "reset_stack_success", "reset_stack_error",
     "flush_dns_success", "flush_dns_error", "release_renew_success",
     "release_renew_error", "disconnect_wifi_success", "disconnect_wifi_error",
     "ui_update", "unhandled_error", "generic_error", "populate_adapters",
     "clear_details", "update_adapter_details"}

\* process_message: what runs for an event of a type, in order. The Wi-Fi
\* handler first, and the return when it handled the event; then the handler
\* of the main map, or the warning.
MainDispatch(type) == IF type \in MainTypes THEN <<"main">> ELSE <<"warning">>
HandledByMutNoReturn(type) ==
    IF type \in WifiTypes THEN <<"wifi">> \o MainDispatch(type) ELSE MainDispatch(type)
HandledBy(type) ==
    IF type \in WifiTypes THEN <<"wifi">> ELSE MainDispatch(type)

\* The finally clause of _process_queue: self.after schedules the next poll,
\* whether the try block returned or raised; the callbacks held afterwards.
FinallyMutSkipsOnRaise(pending, raised) == IF raised THEN pending ELSE pending + 1
Finally(pending, raised) == pending + 1

\* process_message has run for the event the consumer holds: the handler
\* returned or raised (the warning for a type without handler does not raise),
\* and the finally clause has run.
Dispatched ==
    /\ dispatched' = Append(dispatched, [event |-> message, by |-> HandledBy(message.type)])
    /\ message' = NoMessage
    /\ kpc' = "idle"
    /\ \E raised \in (IF HandledBy(message.type) = <<"warning">> THEN {FALSE} ELSE BOOLEAN) :
          /\ tick_raised' = raised
          /\ polls_pending' = Finally(polls_pending, raised)

\* A worker thread finishes its operation and puts its event on the queue.
WorkerPuts ==
    /\ produced < MaxEvents
    /\ produced' = produced + 1
    /\ \E type \in WorkerEvents : task_queue' = Put(task_queue, type, None)
    /\ UNCHANGED <<kpc, message, after_calls, consumer_io, logVars, polls_pending,
                   tick_raised, ctlVars, nonCons>>

\* The consumer is started: the first poll of the queue is scheduled.
StartConsumer ==
    /\ kpc = "none"
    /\ kpc' = "idle"
    /\ polls_pending' = polls_pending + 1
    /\ UNCHANGED <<message, after_calls, produced, consumer_io, logVars, tick_raised,
                   task_queue, ctlVars, nonCons>>

\* (a variant that takes the newest event)
ProcessQueueMutLifo ==
    /\ kpc = "idle"
    /\ polls_pending > 0
    /\ polls_pending' = polls_pending - 1
    /\ task_queue # <<>>
    /\ message' = task_queue[Len(task_queue)]
    /\ delivered' = Append(delivered, task_queue[Len(task_queue)])
    /\ task_queue' = SubSeq(task_queue, 1, Len(task_queue) - 1)
    /\ kpc' = "dispatch"
    /\ UNCHANGED <<after_calls, produced, consumer_io, dispatched, published,
                   tick_raised, ctlVars, nonCons>>

\* A poll of the queue that finds it empty: task_queue.get_nowait() raises
\* queue.Empty at once, the except clause passes, the finally clause runs.
ProcessQueueEmpty ==
    /\ kpc = "idle"
    /\ polls_pending > 0
    /\ task_queue = <<>>
    /\ polls_pending' = Finally(polls_pending - 1, FALSE)
    /\ tick_raised' = FALSE
    /\ UNCHANGED <<kpc, message, after_calls, produced, consumer_io, logVars,
                   task_queue, ctlVars, nonCons>>

\* A poll of the queue: task_queue.get_nowait() takes the oldest event.
ProcessQueue ==
    /\ kpc = "idle"
    /\ polls_pending > 0
    /\ polls_pending' = polls_pending - 1
    /\ task_queue # <<>>
    /\ message' = Head(task_queue)
    /\ delivered' = Append(delivered, Head(task_queue))
    /\ task_queue' = Tail(task_queue)
    /\ kpc' = "dispatch"
    /\ UNCHANGED <<after_calls, produced, consumer_io, dispatched, published,
                   tick_raised, ctlVars, nonCons>>

\* refresh_adapter_list run by the consumer thread: get_adapter_details runs
\* the PowerShell script on this thread.
RefreshOnConsumer ==
    /\ \E raised \in BOOLEAN : Refresh(raised)
    /\ consumer_io' = consumer_io + 1
    /\ UNCHANGED <<refreshes, selects>>

\* _handle_toggle_success: root.after(500, self.controller.refresh_adapter_list)
HandleToggleSuccess ==
    /\ kpc = "dispatch"
    /\ message.type = "toggle_success"
    /\ after_calls' = after_calls + 1
    /\ Dispatched
    /\ UNCHANGED <<produced, consumer_io, delivered, published, task_queue,
                   ctlVars, nonCons>>

\* _handle_toggle_error: self.controller.refresh_adapter_list(), then a dialog.
HandleToggleError ==
    /\ kpc = "dispatch"
    /\ message.type = "toggle_error"
    /\ RefreshOnConsumer
    /\ Dispatched
    /\ UNCHANGED <<after_calls, produced, delivered, published, nonCons>>

\* _handle_release_renew_success: a dialog, then
\* self.controller.refresh_adapter_list().
HandleReleaseRenewSuccess ==
    /\ kpc = "dispatch"
    /\ message.type = "release_renew_success"
    /\ RefreshOnConsumer
    /\ Dispatched
    /\ UNCHANGED <<after_calls, produced, delivered, published, nonCons>>

\* The events whose handling only updates widgets or shows a dialog, the
\* Wi-Fi handler's, and those of a type without a handler.
HandleOther ==
    /\ kpc = "dispatch"
    /\ message.type \notin {"toggle_success", "toggle_error", "release_renew_success"}
    /\ Dispatched
    /\ UNCHANGED <<after_calls, produced, consumer_io, delivered, published,
                   task_queue, ctlVars, nonCons>>

\* The Tk event loop runs a callback root.after scheduled: the consumer
\* thread runs refresh_adapter_list.
AfterCallback ==
    /\ kpc = "idle"
    /\ after_calls > 0
    /\ after_calls' = after_calls - 1
    /\ RefreshOnConsumer
    /\ UNCHANGED <<kpc, message, produced, logVars, polls_pending, tick_raised, nonCons>>

InitCons == InitController /\ InitPolling /\ NoDeltaCall /\ NoCommand /\ NoConsumer
    /\ NoAux

NextCons ==
    \/ WorkerPuts
    \/ StartConsumer
    \/ ProcessQueueEmpty
    \/ ProcessQueue
    \/ HandleToggleSuccess
    \/ HandleToggleError
    \/ HandleReleaseRenewSuccess
    \/ HandleOther
    \/ AfterCallback

SpecCons == InitCons /\ [][NextCons]_vars

\* ------------------------------------------------- producers and consumer

\* The threads that publish, and the types of the events each publishes: the
\* fast loop, a fetch thread of the slow loop, a worker of the action handler
\* (whose events go to the Wi-Fi handler, or have no handler).
Producers == {"fast", "fetch", "action"}
TypesOf(p) ==
    CASE p = "fast" -> {"speed_update"}
      [] p = "fetch" -> {"diagnostics_update"}
      [] p = "action" -> {"wifi_list_success", "unknown_message"}

\* task_queue.put by producer p: its next event.
ProducerPuts(p) ==
    /\ published[p] < MaxPerProducer
    /\ published' = [published EXCEPT ![p] = @ + 1]
    /\ \E type \in TypesOf(p) :
          task_queue' = Put(task_queue, type, [producer |-> p, seq |-> published[p] + 1])
    /\ UNCHANGED <<kpc, message, after_calls, produced, consumer_io, delivered,
                   dispatched, polls_pending, tick_raised, ctlVars, nonCons>>

InitQueue == InitController /\ InitPolling /\ NoDeltaCall /\ NoCommand /\ NoConsumer
    /\ NoAux

NextQueue ==
    \/ \E p \in Producers : ProducerPuts(p)
    \/ StartConsumer
    \/ ProcessQueueEmpty
    \/ ProcessQueue
    \/ HandleOther

SpecQueue == InitQueue /\ [][NextQueue]_vars

\* The Tk event loop runs every callback self.after holds, and a handler that
\* was called returns or raises.
SpecDrain ==
    /\ InitQueue
    /\ [][NextQueue]_vars
    /\ WF_vars(StartConsumer)
    /\ WF_vars(ProcessQueueEmpty)
    /\ WF_vars(ProcessQueue)
    /\ WF_vars(HandleOther)

\* ------------------------------------------------- background tasks

\* The events a worker puts, in order, once its function has returned or
\* raised. BaseActionHandler.run_background_task: the result for on_complete;
\* on NetworkManagerError generic_error, then on_complete and on_error; on
\* any other exception unhandled_error. BaseTaskWindow._run_background_task:
\* the error event of the except clause, then on_complete in the finally.
ErrorEventsMutSilent(outcome) ==
    CASE outcome = "returns" -> <<>>
      [] outcome = "NetworkManagerError" -> <<"generic_error">>
      [] outcome = "Exception" -> <<>>
ErrorEvents(outcome) ==
    CASE outcome = "returns" -> <<>>
      [] outcome = "NetworkManagerError" -> <<"generic_error">>
      [] outcome = "Exception" -> <<"unhandled_error">>
UiUpdate(flag) == IF flag THEN <<"ui_update">> ELSE <<>>
\* The events of the given types, each with the callback its 'func' calls.
Carrying(types, func) == [j \in DOMAIN types |-> [type |-> types[j], func |-> func]]
TaskEvents(t) ==
    LET errors == Carrying(ErrorEvents(t.outcome), "none")
        complete == Carrying(UiUpdate(t.on_complete), "on_complete")
        error == Carrying(UiUpdate(t.on_error), "on_error")
    IN IF t.wrapper = "action_handler"
       THEN CASE t.outcome = "returns" -> complete
              [] t.outcome = "NetworkManagerError" -> errors \o complete \o error
              [] t.outcome = "Exception" -> errors
       ELSE errors \o complete

\* run_background_task(task_func, *args, on_complete=..., on_error=...): the
\* worker thread is started. The window's wrapper takes no on_error.
RunBackgroundTask(i) ==
    /\ tasks[i].pc = "none"
    /\ \E w \in Wrappers, o \in Outcomes, c \in BOOLEAN, e \in BOOLEAN :
          /\ w = "base_window" => ~e
          /\ tasks' = [tasks EXCEPT ![i] =
                [wrapper |-> w, outcome |-> o, on_complete |-> c, on_error |-> e,
                 pc |-> "running", left |-> <<>>]]
    /\ UNCHANGED <<task_queue, nonTask>>

\* The worker calls task_func(*args): it returns or raises, and the clause
\* that takes it over has its puts ahead.
WorkerCalls(i) ==
    /\ tasks[i].pc = "running"
    /\ tasks' = [tasks EXCEPT ![i].pc = "publishing", ![i].left = TaskEvents(tasks[i])]
    /\ UNCHANGED <<task_queue, nonTask>>

\* The worker's next task_queue.put.
WorkerPublishes(i) ==
    /\ tasks[i].pc = "publishing"
    /\ tasks[i].left # <<>>
    /\ task_queue' = Put(task_queue, Head(tasks[i].left).type,
                         [producer |-> "action", seq |-> i, func |-> Head(tasks[i].left).func])
    /\ tasks' = [tasks EXCEPT ![i].left = Tail(@)]
    /\ UNCHANGED nonTask

\* The worker function returns: the thread ends.
WorkerEnds(i) ==
    /\ tasks[i].pc = "publishing"
    /\ tasks[i].left = <<>>
    /\ tasks' = [tasks EXCEPT ![i].pc = "done"]
    /\ UNCHANGED <<task_queue, nonTask>>

InitTask == InitController /\ InitPolling /\ NoDeltaCall /\ NoCommand /\ NoConsumer
    /\ NoAux

NextTask ==
    \/ \E i \in 1..MaxTasks : RunBackgroundTask(i)
    \/ \E i \in 1..MaxTasks : WorkerCalls(i)
    \/ \E i \in 1..MaxTasks : WorkerPublishes(i)
    \/ \E i \in 1..MaxTasks : WorkerEnds(i)

SpecTask == InitTask /\ [][NextTask]_vars

\* ------------------------------------------------------------------ C1

\* C1: for every adapter present in both samples with numeric counters and
\* time_delta > 0, the download rate is (current.received - last.received) /
\* time_delta when that difference is >= 0 and exactly 0 when it is negative,
\* the upload rate likewise from the sent counters alone, and no rate of the
\* result is negative.
C1_RatesClampedAtZero ==
    dpc = "returned" =>
        /\ \A n \in DOMAIN ret_speeds :
              NonNegative(ret_speeds[n].download) /\ NonNegative(ret_speeds[n].upload)
        /\ arg_dt > 0 =>
              \A n \in DOMAIN arg_current \cap DOMAIN arg_last :
                 AllNumeric(arg_current[n], arg_last[n]) =>
                    LET dl == arg_current[n].received.v - arg_last[n].received.v
                        ul == arg_current[n].sent.v - arg_last[n].sent.v
                    IN /\ n \in DOMAIN ret_speeds
                       /\ dl >= 0 => ret_speeds[n].download = Quot(dl, arg_dt)
                       /\ dl < 0 => ret_speeds[n].download = Zero
                       /\ ul >= 0 => ret_speeds[n].upload = Quot(ul, arg_dt)
                       /\ ul < 0 => ret_speeds[n].upload = Zero

\* A call where one counter was reset and the other advanced.
C1_Witness ==
    /\ dpc = "returned"
    /\ arg_dt > 0
    /\ \E n \in DOMAIN ret_speeds :
          /\ arg_current[n].received.v < arg_last[n].received.v
          /\ arg_current[n].sent.v > arg_last[n].sent.v
          /\ ret_speeds[n].download = Zero
          /\ ret_speeds[n].upload.num > 0

\* ------------------------------------------------------------------ C11

C12_ChildTerminatedOnExit ==
    fpc \in {"exited", "raised"} => process # "running"

\* ------------------------------------------------------------------ C13

\* C13: however often start_all and start_polling_threads are called, one
\* thread is started for the slow loop and one for the fast loop, by the first
\* execution of start_polling_threads; no later execution starts a thread.
C13_ThreadsStartedOnce ==
    /\ slow_threads = (IF start_runs > 0 THEN 1 ELSE 0)
    /\ fast_threads = slow_threads
    /\ is_running <=> start_runs > 0

\* start_polling_threads ran three times, the last time after the fast loop
\* had ended with the exit of its child, and one thread per loop was started.
C13_Witness ==
    /\ start_runs = MaxStartCalls
    /\ after_starts = 0
    /\ fpc = "exited"
    /\ slow_threads = 1
    /\ fast_threads = 1

\* ------------------------------------------------------------------ C14

\* The events of producer p in a sequence of events, as their sequence numbers.
RECURSIVE SeqsOf(_, _)
SeqsOf(p, q) ==
    IF q = <<>> THEN <<>>
    ELSE IF Head(q).data.producer = p
         THEN <<Head(q).data.seq>> \o SeqsOf(p, Tail(q))
         ELSE SeqsOf(p, Tail(q))

\* C14: the events of one producer reach the consumer in the order that
\* producer published them, whatever the other producers do: what the
\* consumer has dequeued of a producer is its events 1, 2, ... in this order,
\* and what is still queued of it follows in order.
C14_PerProducerOrder ==
    \A p \in Producers :
       SeqsOf(p, delivered) \o SeqsOf(p, task_queue)
          = [n \in 1..published[p] |-> n]

\* All events of all producers were delivered, a second event of one
\* producer after the other producers' first events.
C14_Witness ==
    /\ \A p \in Producers : published[p] = MaxPerProducer
    /\ Len(delivered) = 3 * MaxPerProducer
    /\ delivered[1].data.producer # delivered[2].data.producer
    /\ delivered[3].data.producer = delivered[1].data.producer

\* ------------------------------------------------------------------ C15

\* How often an event occurs in a sequence of events.
Count(e, q) == Cardinality({j \in DOMAIN q : q[j] = e})

\* The events published so far.
PublishedEvents ==
    {task_queue[j] : j \in DOMAIN task_queue} \cup {delivered[j] : j \in DOMAIN delivered}

\* C15: every event published is in the queue or was dequeued, once in all;
\* process_message ran once for every event dequeued (but the one in hand),
\* and for an event ran one thing: the Wi-Fi handler, or the main handler, or
\* the warning, the warning only for a type neither map has.
C15_ConsumedExactlyOnce ==
    /\ Len(task_queue) + Len(delivered) = published["fast"] + published["fetch"] + published["action"]
    /\ \A e \in PublishedEvents : Count(e, task_queue) + Count(e, delivered) = 1
    /\ Len(dispatched) = Len(delivered) - (IF kpc = "dispatch" THEN 1 ELSE 0)
    /\ \A j \in DOMAIN dispatched :
          /\ dispatched[j].event = delivered[j]
          /\ Len(dispatched[j].by) = 1
          /\ dispatched[j].by[1] = "warning"
                <=> dispatched[j].event.type \notin WifiTypes \cup MainTypes
          /\ dispatched[j].by[1] = "wifi" <=> dispatched[j].event.type \in WifiTypes

\* An event of the Wi-Fi handler, an event of the main map and an event
\* without a handler were dispatched.
C15_Witness ==
    /\ \E j \in DOMAIN dispatched : dispatched[j].by = <<"wifi">>
    /\ \E j \in DOMAIN dispatched : dispatched[j].by = <<"main">>
    /\ \E j \in DOMAIN dispatched : dispatched[j].by = <<"warning">>
    /\ task_queue = <<>>
    /\ kpc = "idle"

\* ------------------------------------------------------------------ C16

\* The events of a type that task i has on the queue.
TaskEventCount(i, type) ==
    Cardinality({j \in DOMAIN task_queue :
                    task_queue[j].type = type /\ task_queue[j].data.seq = i})

NumericEntry(e) == e.received.t = "num" /\ e.sent.t = "num"

\* Sample k is the first of the processed samples that has adapter n.
FirstAppears(n, k) ==
    /\ n \in DOMAIN sample_log[k].stats
    /\ \A j \in 1..(k - 1) : n \notin DOMAIN sample_log[j].stats

\* Adapter n is in sample k + 1 with numeric counters, taken later than sample k.
StillPresent(n, k) ==
    /\ k + 1 <= Len(sample_log)
    /\ n \in DOMAIN sample_log[k + 1].stats
    /\ NumericEntry(sample_log[k + 1].stats[n])
    /\ sample_log[k + 1].time > sample_log[k].time

\* C17 as stated: an adapter that first appears in sample k has no speed for
\* sample k, and has one for sample k + 1 when it is still present there with
\* numeric counters and time has passed between the two samples.
C17_NewAdapterHasSpeedNextSample ==
    \A k \in 1..Len(sample_log) : \A n \in Names :
       FirstAppears(n, k) =>
          /\ n \notin DOMAIN sample_log[k].speeds
          /\ StillPresent(n, k) => n \in DOMAIN sample_log[k + 1].speeds

\* C17, amended: an adapter that first appears in sample k has no speed for
\* sample k; it has one for sample k + 1 when it is still present there with
\* numeric counters, time has passed between the two samples, and its
\* counters in sample k, the baseline, were numeric as well.
C17_NewAdapterHasSpeedAfterNumericBaseline ==
    \A k \in 1..Len(sample_log) : \A n \in Names :
       FirstAppears(n, k) =>
          /\ n \notin DOMAIN sample_log[k].speeds
          /\ StillPresent(n, k) /\ NumericEntry(sample_log[k].stats[n])
                => n \in DOMAIN sample_log[k + 1].speeds

\* Two samples processed: the adapter came with the first, without a speed,
\* and has a speed in the second.
C17_Witness ==
    /\ Len(sample_log) = 2
    /\ FirstAppears("a", 1)
    /\ "a" \notin DOMAIN sample_log[1].speeds
    /\ StillPresent("a", 1)
    /\ "a" \in DOMAIN sample_log[2].speeds

\* ------------------------------------------------------------------ C18

\* C18: a call of _calculate_speed_delta with time_delta <= 0, or with an
\* empty previous sample, or with an empty current sample, returns the empty
\* map and evaluates no division.
C18_EmptyWithoutBaselineOrTime ==
    dpc = "returned" /\ (arg_dt <= 0 \/ DOMAIN arg_last = {} \/ DOMAIN arg_current = {})
       => /\ ret_speeds = <<>>
          /\ Divisions(arg_current, arg_last, arg_dt) = {}

\* A call with time_delta = 0 on two samples that share an adapter with
\* numeric, advancing counters: dividing would have been by zero.
C18_Witness ==
    /\ dpc = "returned"
    /\ arg_dt = 0
    /\ \E n \in DOMAIN arg_current \cap DOMAIN arg_last :
          /\ AllNumeric(arg_current[n], arg_last[n])
          /\ arg_current[n].received.v > arg_last[n].received.v
    /\ ret_speeds = <<>>

\* ------------------------------------------------------------------ C19

\* The adapters of both samples that the isinstance test of the loop rejects.
Skipped(cur, last) ==
    {n \in DOMAIN cur \cap DOMAIN last : ~AllNumeric(cur[n], last[n])}

\* C19: after a call with time_delta > 0, an adapter with a non-numeric
\* counter in the current or in the previous sample is not in the result and
\* a log record about it was written; the call returned, and every other
\* adapter of both samples is in the result.
C19_InvalidAdapterSkippedAndLogged ==
    dpc = "returned" /\ arg_dt > 0 =>
       /\ \A n \in Skipped(arg_current, arg_last) :
             n \notin DOMAIN ret_speeds /\ n \in skip_logged
       /\ \A n \in (DOMAIN arg_current \cap DOMAIN arg_last)
                      \ Skipped(arg_current, arg_last) :
             n \in DOMAIN ret_speeds

\* ------------------------------------------------------------------ C20

C22_SafeDecodeNeverRaises ==
    /\ sd_pc # "raised"
    /\ sd_pc = "returned" =>
          IF sd_bytes.none \/ sd_bytes.b = <<>>
          THEN sd_ret.text = <<>>
          ELSE LET u == Utf8Decode(sd_bytes.b)
                   o == OemDecode(oem_page, sd_bytes.b)
                   a == AsciiReplaceDecode(sd_bytes.b)
               IN /\ u.ok => sd_ret.used = "utf-8" /\ sd_ret.text = Strip(u.text)
                  /\ ~u.ok /\ o.ok => sd_ret.used = "oem" /\ sd_ret.text = Strip(o.text)
                  /\ ~u.ok /\ ~o.ok =>
                        /\ a.ok
                        /\ sd_ret.used = "ascii"
                        /\ sd_ret.text = QuestionMarks(Strip(a.text))

\* Bytes that are neither UTF-8 nor text of the double-byte code page came
\* back as text of the last decoding.
C22_Witness ==
    /\ sd_pc = "returned"
    /\ oem_page = "cp932"
    /\ sd_bytes = SomeBytes(<<"x41", "xFF", "x20">>)
    /\ sd_ret.used = "ascii"
    /\ sd_ret.text = <<"A", "?">>

\* ------------------------------------------------------------------ C21

\* What _safe_decode makes of the child's stderr and stdout.
DecodedErr == SafeDecode(SomeBytes(child_err), oem_page).text
DecodedOut == SafeDecode(SomeBytes(child_out), oem_page).text

\* C21: the message of the error that run_system_command raises for a command
\* that ended with a non-zero return code, check being true, is the prefix
\* followed by the decoded stderr when that is not empty, else by the decoded
\* stdout when that is not empty, else by 'An unknown error occurred.'
C21_FailureMessagePrefersStderr ==
    cpc = "raised" /\ coutcome = "failed" =>
       /\ cmessage.prefixed
       /\ DecodedErr # <<>> => cmessage.text = DecodedErr
       /\ DecodedErr = <<>> /\ DecodedOut # <<>> => cmessage.text = DecodedOut
       /\ DecodedErr = <<>> /\ DecodedOut = <<>> => cmessage.text = GenericText

\* A failed command that wrote text to both: the message has that of stderr.
C21_Witness ==
    /\ cpc = "raised" /\ coutcome = "failed"
    /\ child_err = <<"x84">> /\ child_out = <<"x41">>
    /\ oem_page = "cp437"
    /\ cmessage = [prefixed |-> TRUE, text |-> <<"a_DIAERESIS">>]

\* ------------------------------------------------------------------ C23

\* C23: once the caller of a streamed command has stopped consuming the
\* lines, the child does not stay running and its pipe does not stay open:
\* the child is reaped and the pipe closed.
C23_AbandonedStreamIsReaped ==
    (gcaller \in {"stopped", "closed"}) ~> (gchild # "running" /\ gpipe # "open")

\* ------------------------------------------------------------------ C24

\* The queue after a call is the queue before it and these events.
Appended(events) ==
    /\ Len(task_queue') = Len(task_queue) + Len(events)
    /\ SubSeq(task_queue', 1, Len(task_queue)) = task_queue
    /\ \A i \in DOMAIN events : task_queue'[Len(task_queue) + i].type = events[i]

\* The last event of the queue after the call is populate_adapters with the
\* list the call stored.
CarriesStored ==
    /\ adapters_data' \in AdapterLists
    /\ task_queue'[Len(task_queue')].data = adapters_data'

\* C24 as stated: every call of refresh_adapter_list publishes status_update,
\* clear_details and one more event, in this order: populate_adapters with
\* the adapters_data it has stored, or generic_error with adapters_data as it
\* was.
C24_RefreshPublishesThree ==
    [][refreshes' = refreshes + 1 =>
          \/ Appended(<<"status_update", "clear_details", "populate_adapters">>)
                /\ CarriesStored
          \/ Appended(<<"status_update", "clear_details", "generic_error">>)
                /\ adapters_data' = adapters_data]_vars

\* C24, amended: a call of refresh_adapter_list in which get_adapter_details
\* returns publishes status_update, clear_details, populate_adapters with the
\* adapters_data it has stored; one in which it raises NetworkManagerError
\* publishes status_update, clear_details, generic_error and leaves
\* adapters_data as it was; one in which it raises another exception
\* publishes status_update and clear_details only, leaves adapters_data as it
\* was, and the exception leaves the call.
C24_RefreshPublishesByOutcome ==
    [][refreshes' = refreshes + 1 =>
          CASE refresh_outcome' = "stored" ->
                  Appended(<<"status_update", "clear_details", "populate_adapters">>)
                     /\ CarriesStored
            [] refresh_outcome' = "NetworkManagerError" ->
                  Appended(<<"status_update", "clear_details", "generic_error">>)
                     /\ adapters_data' = adapters_data
            [] refresh_outcome' = "raised" ->
                  Appended(<<"status_update", "clear_details">>)
                     /\ adapters_data' = adapters_data]_vars

\* A refresh that stored a list after one that failed, the list of the first
\* refresh kept in between: the queue holds the events of the three calls.
C24_Witness ==
    /\ refreshes = 3
    /\ refresh_outcome = "stored"
    /\ adapters_data = <<"b", "a">>
    /\ Len(task_queue) = 9
    /\ task_queue[3].type = "populate_adapters" /\ task_queue[3].data = <<"a">>
    /\ task_queue[6].type = "generic_error"
    /\ task_queue[7].type = "status_update"
    /\ task_queue[8].type = "clear_details"
    /\ task_queue[9].type = "populate_adapters" /\ task_queue[9].data = <<"b", "a">>

\* ------------------------------------------------------------------ C25

\* Where an entry is in the workflow's history (0: nowhere).
FirstAt(e) ==
    IF \E i \in DOMAIN wlog : wlog[i] = e
    THEN CHOOSE i \in DOMAIN wlog : wlog[i] = e /\ \A j \in 1..(i - 1) : wlog[j] # e
    ELSE 0
Happened(e) == FirstAt(e) > 0
Before(a, b) == Happened(b) => Happened(a) /\ FirstAt(a) < FirstAt(b)

\* The order of the workflow's steps: disconnect_wifi before any poll, the
\* disable after a poll that returned None, the success message after the
\* disable returned; after the error for the time being up, no disable.
FlowOrder ==
    /\ Before("disconnect_wifi", "get_current_wifi_details")
    /\ Before("None", "disable")
    /\ Before("disable returned", "yield success")
    /\ Happened("raised: not confirmed") => ~Happened("None") /\ ~Happened("disable")

\* C25 as stated: the workflow's steps are in that order, and a disconnection
\* not confirmed within DISCONNECT_TIMEOUT_SECONDS of start_time is followed
\* by no disable.
C25_DisableOnlyIfConfirmedInTime ==
    /\ FlowOrder
    /\ Happened("disable") => wconfirmed_at - wstart <= DISCONNECT_TIMEOUT_SECONDS

\* C25, amended: the workflow's steps are in that order; the disable follows
\* a poll that returned None and had begun less than
\* DISCONNECT_TIMEOUT_SECONDS after start_time, however long it took to
\* return; the error is raised when the loop's test finds
\* DISCONNECT_TIMEOUT_SECONDS or more elapsed and no poll has returned None.
C25_DisableOnlyIfPollBeganInTime ==
    /\ FlowOrder
    /\ Happened("disable") => wpoll_began - wstart < DISCONNECT_TIMEOUT_SECONDS
    /\ Happened("raised: not confirmed") => wnow - wstart >= DISCONNECT_TIMEOUT_SECONDS

\* The workflow ran to its end after a poll that found the connection and one
\* that did not; and one that gave up.
C25_Witness ==
    /\ wpc = "ended"
    /\ wlog = <<"yield 1", "disconnect_wifi", "yield 2", "get_current_wifi_details",
                "details", "get_current_wifi_details", "None", "yield 3", "disable",
                "disable returned", "yield success">>
    /\ wconfirmed_at - wstart = 2

\* ------------------------------------------------------------------ C26

\* C26: after any sequence of calls of on_adapter_select and
\* refresh_adapter_list, selected_adapter_index is None or an index into the
\* current adapters_data, so that get_selected_adapter_name has an adapter to
\* take the name of.
C26_SelectedIndexIsValid ==
    selected_adapter_index = NoIndex \/ selected_adapter_index < Len(adapters_data)

\* ------------------------------------------------------------------ C27

\* C27: the diagnostics_update events are in the queue in the order of the
\* iterations that started their fetches, and so are the wifi_status_update
\* events: the result of an older iteration is never behind that of a newer.
C27_FetchResultsInIterationOrder ==
    \A k \in Kinds : \A j1, j2 \in DOMAIN task_queue :
       (j1 < j2 /\ task_queue[j1].type = EventOf(k) /\ task_queue[j2].type = EventOf(k))
          => task_queue[j1].data < task_queue[j2].data

\* ------------------------------------------------------------------ C28

\* The line in hand yields no adapter record; a step of the fast loop's thread
\* inside _calculate_current_speeds or at the put that follows it.
NoRecords == line.kind # "stats" \/ DOMAIN line.stats = {}
CalcStep == fpc \in {"calc", "update", "publish"} /\ fpc' # fpc

\* C28 as stated: for a line that yields no adapter record the call computes
\* the empty map, last_stats and last_time stay as they are, and no
\* speed_update is put.
C28_BadLineLeavesBaseline ==
    [][CalcStep /\ NoRecords =>
          /\ fpc = "calc" => calculated_speeds' = <<>>
          /\ UNCHANGED <<last_stats, last_time, task_queue>>]_vars

\* C28, amended: for a line that yields no adapter record the call computes
\* the empty map and no speed_update is put; last_stats and last_time stay as
\* they are when the line is not JSON or is a JSON scalar, on which parsing
\* raises; for JSON that parses without a record (an empty list, a string, a
\* list of numbers) the call stores the empty sample and the time of the
\* call, so that the next valid sample has no baseline.
C28_UnparsedLineLeavesBaseline ==
    [][CalcStep /\ NoRecords =>
          /\ fpc = "calc" => calculated_speeds' = <<>>
          /\ task_queue' = task_queue
          /\ line.kind \in {"malformed", "scalar"} => UNCHANGED <<last_stats, last_time>>
          /\ (line.kind \notin {"malformed", "scalar"} /\ fpc = "update") =>
                last_stats' = <<>> /\ last_time' = current_time]_vars

\* A line that is not JSON went through the call after a valid sample, which
\* is still the baseline.
C28_Witness ==
    /\ fpc = "publish"
    /\ line.kind = "malformed"
    /\ linesRead = 2
    /\ "a" \in DOMAIN last_stats
    /\ Len(sample_log) = 1
    /\ calculated_speeds = <<>>

\* ------------------------------------------------------------------ C29

\* The event number n of producer p has been taken from the queue.
Dequeued(p, n) ==
    \E j \in DOMAIN delivered : delivered[j].data = [producer |-> p, seq |-> n]

\* The polls of the queue there are: those self.after holds and the one that
\* is running.
PollsAlive == polls_pending + (IF kpc = "dispatch" THEN 1 ELSE 0)

\* C29: once the consumer is started there is exactly one poll of the queue
\* scheduled or running, whatever the last poll found (an empty queue, a
\* handled event, an event without handler, a handler that raised), and when
\* the event loop runs the scheduled polls every published event is
\* eventually dequeued.
C29_DrainReschedulesOnceAndDequeuesAll ==
    /\ [](kpc # "none" => PollsAlive = 1)
    /\ \A p \in Producers : \A n \in 1..MaxPerProducer :
          (published[p] >= n) ~> Dequeued(p, n)

\* A handler raised, the next poll is scheduled all the same, and the events
\* published since have been dequeued.
C29_Witness ==
    /\ tick_raised
    /\ kpc = "idle"
    /\ polls_pending = 1
    /\ Len(dispatched) >= 2
    /\ \E j \in DOMAIN dispatched : dispatched[j].by = <<"warning">>
    /\ task_queue = <<>>

\* ------------------------------------------------------------------ C30

\* The places on the queue of task i's ui_update events for on_complete, and
\* of its error events.
CompletePuts(i) ==
    {j \in DOMAIN task_queue :
        /\ task_queue[j].data.seq = i
        /\ task_queue[j].type = "ui_update"
        /\ task_queue[j].data.func = "on_complete"}
ErrorPuts(i) ==
    {j \in DOMAIN task_queue :
        /\ task_queue[j].data.seq = i
        /\ task_queue[j].type \in {"generic_error", "unhandled_error"}}

\* C30 as stated: a task started with an on_complete callback has, when its
\* worker ends, exactly one ui_update event for that callback on the queue,
\* whether the function returned, raised NetworkManagerError or raised any
\* other exception, and that event is behind every error event of the task.
C30_OnCompletePublishedOnceForEveryOutcome ==
    \A i \in 1..MaxTasks :
       (tasks[i].pc = "done" /\ tasks[i].on_complete) =>
          /\ Cardinality(CompletePuts(i)) = 1
          /\ \A j \in ErrorPuts(i) : \A k \in CompletePuts(i) : j < k

\* ------------------------------------------------------------------ C2

\* The number of speed_update events in a queue.
SpeedCount(q) == Cardinality({j \in DOMAIN q : q[j].type = "speed_update"})

\* C2 as claimed: while no adapter is selected, the fast loop still advances
\* last_stats and last_time on every sample it reads: when it is done with a
\* line for which get_selected_adapter_name returned None, the retained sample
\* is that line's.
C2_AdvancesWhileUnselected ==
    [][(fpc = "sleep" /\ fpc' = "loop" /\ line.kind = "stats")
          => last_stats' = ParsedStats(line)]_vars

\* C2 as amended: last_stats and last_time change only when the loop handles a
\* line for which get_selected_adapter_name returned a name; a line read while
\* no adapter is selected leaves both as they were, so the next speed is a
\* delta against the last sample handled while an adapter was selected.
C2_AdvancesOnlyWhenSelected ==
    [][(last_stats' # last_stats \/ last_time' # last_time)
          => (fpc = "update" /\ sel_name # None /\ last_stats' = current_stats
              /\ last_time' = current_time)]_vars

\* A sample was read and skipped with no adapter selected, and the retained
\* sample is not that one.
C2_Witness ==
    /\ fpc = "loop"
    /\ sel_name = None
    /\ line.kind = "stats"
    /\ DOMAIN line.stats # {}
    /\ last_stats # ParsedStats(line)

\* ------------------------------------------------------------------ C3

\* C3: a speed_update event is published only for a line for which
\* get_selected_adapter_name returned a name: while it returns None, no step
\* adds a speed_update event to the queue.
C3_NoSpeedUpdateWhileUnselected ==
    [][SpeedCount(task_queue') > SpeedCount(task_queue) => sel_name # None]_vars

\* Two samples were read with no adapter selected, time passed between them,
\* and nothing was published.
C3_Witness ==
    /\ fpc = "loop"
    /\ sel_name = None
    /\ line.kind = "stats"
    /\ linesRead = 2
    /\ clock > 0
    /\ SpeedCount(task_queue) = 0

\* ------------------------------------------------------------------ C4

\* C4: when the timeout of a run_system_command call has expired, the call
\* does not wait for a child that is still running: the child has been
\* terminated, so nothing keeps the call from ending with its 'timed out'
\* error.
C4_TimeoutEndsTheCall ==
    (cpc = "exit" /\ cexc = "TimeoutExpired") => child # "running"

\* ------------------------------------------------------------------ C5

\* C5: no OS command is ever executed on the consumer thread.
C5_ConsumerNeverDoesIO == consumer_io = 0

\* ------------------------------------------------------------------ C6

\* C6: get_selected_adapter_name, as called by the fast loop, never fails, and
\* what it returns is None or the name of an adapter that was the selected one
\* at some moment.
C6_SelectionReadIsSnapshot ==
    /\ fpc # "raised"
    /\ fpc \in {"sleep", "calc"} => sel_name \in everSelected \cup {None}

\* ------------------------------------------------------------------ C7

\* C7: once the loops are started and while no stop is requested (is_running),
\* the fast loop and the slow loop are both still iterating.
C7_LoopsRunUntilStopped ==
    is_running => (fpc \notin {"exited", "raised"} /\ spc # "exited")

\* ------------------------------------------------------------------ C8

C9_RefreshInFirstIterationOnly == refreshIters \subseteq {1}

\* ------------------------------------------------------------------ C10

\* Whether the event of kind k started in iteration i is in the queue.
Published(k, i) ==
    \E j \in DOMAIN task_queue : task_queue[j] = [type |-> EventOf(k), data |-> i]

\* C10: a fetch that has its data can publish in every state, whatever became
\* of the other fetch of its iteration, and what it publishes is its own
\* event; the loop's sleep can end as soon as diagnostics_interval has passed,
\* whatever the fetches do.
C10_FetchesAreIndependent ==
    /\ \A k \in Kinds, i \in 1..MaxIter :
          /\ fetch[k][i] = "ok" => ENABLED FetchReturns(k, i)
          /\ fetch[k][i] = "published" <=> Published(k, i)
    /\ (spc = "sleep" /\ clock >= swake) => ENABLED SlowWake

\* The diagnostics fetch of the first iteration was lost, its Wi-Fi fetch
\* published, and the loop is in its second iteration.
C10_Witness ==
    /\ fetch["diagnostics"][1] = "lost"
    /\ fetch["wifi_status"][1] = "published"
    /\ Published("wifi_status", 1)
    /\ siter = 2

====
